---- MODULE Spec2Model ----
(***************************************************************************)
(* Model of the Amazon Q -> Claude protocol bridge:                        *)
(*   - ClaudeStreamHandler (internal/amazonq/streaming.go): the response   *)
(*     stream transcoder, HandleEvent and Finish;                          *)
(*   - ParseStream / ParseMessage / ParseHeaders (internal/amazonq/        *)
(*     parser.go): the binary event-stream decoder.                        *)
(* Go strings and byte slices are sequences (of one-character strings and  *)
(* of numbers 0..255); Go's 0-based half-open slice s[a:b] is Slice(s,a,b).*)
(***************************************************************************)
EXTENDS Integers, Sequences, FiniteSets, TLC

VARIABLES h, out, pc, nEvents, log,
          reader, buffer, eventChan, chanClosed, ppc, frames,
          script, decoder, transcoder, sseChan, sseClosed, delivery, received,
          callIn, callOut,
          upstream, response,
          tokenMap, entries, tokenMutex, refresher, requests

handlerVars == <<h, out, pc, nEvents, log>>
parserVars  == <<reader, buffer, eventChan, chanClosed, ppc, frames>>
\* the per-request pipeline: decode task, transcode task, delivery stage
pipeVars == <<script, decoder, transcoder, sseChan, sseClosed, delivery, received>>
\* one call of a function of the request transcoder: its argument and result
callVars == <<callIn, callOut>>
\* one request to handleClaudeMessages: the upstream answer and the response
flowVars == <<upstream, response>>
\* the token cache, its lock, the refresher and the requests being authenticated
cacheVars == <<tokenMap, entries, tokenMutex, refresher, requests>>
vars == <<h, out, pc, nEvents, log, reader, buffer, eventChan, chanClosed, ppc, frames,
          script, decoder, transcoder, sseChan, sseClosed, delivery, received,
          callIn, callOut,
          upstream, response,
          tokenMap, entries, tokenMutex, refresher, requests>>

(* ------------------------------ bounds --------------------------------- *)
\* number of HandleEvent calls explored before Finish
MaxEvents == 4
\* number of frames concatenated into the upstream byte stream
MaxFrames == 2

(* --------------------------- string helpers ---------------------------- *)
Slice(s, a, b) == SubSeq(s, a + 1, b)

HasPrefixAt(s, sub, i) ==
    /\ i + Len(sub) <= Len(s)
    /\ \A k \in 1..Len(sub) : s[i + k] = sub[k]

\* strings.Index: 0-based offset of the first occurrence of sub in s, or -1
Index(s, sub) ==
    IF \E i \in 0..Len(s) : HasPrefixAt(s, sub, i)
    THEN CHOOSE i \in 0..Len(s) :
            /\ HasPrefixAt(s, sub, i)
            /\ \A j \in 0..(i - 1) : ~HasPrefixAt(s, sub, j)
    ELSE -1

ThinkingStartTag == <<"<", "t", "h", "i", "n", "k", "i", "n", "g", ">">>
ThinkingEndTag == <<"<", "/", "t", "h", "i", "n", "k", "i", "n", "g", ">">>

(* ----------------------------- SSE events ------------------------------ *)
\* One emitted SSE event.  kind is the content block type of a
\* content_block_start and the delta type of a content_block_delta; text is
\* the delta's text or partial_json; id is the tool-use id of a tool_use
\* block; usage is output_tokens of message_delta.
Ev(type, index, kind, text, id, usage) ==
    [type |-> type, index |-> index, kind |-> kind, text |-> text,
     id |-> id, usage |-> usage]

BuildMessageStart == Ev("message_start", -1, "", <<>>, "", 0)
BuildContentBlockStart(index, blockType) ==
    Ev("content_block_start", index, blockType, <<>>, "", 0)
BuildContentBlockDelta(index, text) ==
    Ev("content_block_delta", index, "text_delta", text, "", 0)
BuildContentBlockStop(index) == Ev("content_block_stop", index, "", <<>>, "", 0)
BuildPing == Ev("ping", -1, "", <<>>, "", 0)
BuildToolUseStart(index, toolUseID, toolName) ==
    Ev("content_block_start", index, "tool_use", <<>>, toolUseID, 0)
BuildToolUseInputDelta(index, inputJSONDelta) ==
    Ev("content_block_delta", index, "input_json_delta", inputJSONDelta, "", 0)
\* one Go string that carries message_delta followed by message_stop
BuildMessageStop(outputTokens) ==
    << Ev("message_delta", -1, "end_turn", <<>>, "", outputTokens),
       Ev("message_stop", -1, "", <<>>, "", 0) >>

(* ------------------------ ClaudeStreamHandler -------------------------- *)
\* CurrentToolUse is "" for nil, otherwise the toolUseId of the open tool.
\* ResponseBuffer, ToolInputBuffer and AllToolInputs are kept joined.
NewClaudeStreamHandler ==
    [ ContentBlockIndex     |-> -1,
      ContentBlockStarted   |-> FALSE,
      ContentBlockStartSent |-> FALSE,
      ContentBlockStopSent  |-> FALSE,
      MessageStartSent      |-> FALSE,
      CurrentToolUse        |-> "",
      ToolInputBuffer       |-> <<>>,
      ProcessedToolUseIDs   |-> {},
      AllToolInputs         |-> <<>>,
      ResponseBuffer        |-> <<>>,
      InThinkBlock          |-> FALSE,
      ThinkBuffer           |-> <<>>,
      PingPending           |-> FALSE ]

\* result of a handler step: the new handler state and the events so far
R(hh, events) == [h |-> hh, events |-> events]

\* "if h.PingPending { events = append(events, BuildPing()); ... }"
FirePing(r) ==
    IF r.h.PingPending
    THEN R([r.h EXCEPT !.PingPending = FALSE], Append(r.events, BuildPing))
    ELSE r

\* open a text block if none was started, then emit text as text_delta
EmitText(r, text) ==
    LET r1 == IF ~r.h.ContentBlockStartSent
              THEN FirePing(R([r.h EXCEPT !.ContentBlockIndex = @ + 1,
                                          !.ContentBlockStartSent = TRUE,
                                          !.ContentBlockStarted = TRUE],
                              Append(r.events,
                                     BuildContentBlockStart(r.h.ContentBlockIndex + 1, "text"))))
              ELSE r
    IN R([r1.h EXCEPT !.ResponseBuffer = @ \o text],
         Append(r1.events, BuildContentBlockDelta(r1.h.ContentBlockIndex, text)))

\* OpenThinking without the increment of ContentBlockIndex
OpenThinkingSameIndex(r) ==
    LET r1 == IF r.h.ContentBlockStartSent
              THEN R([r.h EXCEPT !.ContentBlockStopSent = TRUE,
                                 !.ContentBlockStartSent = FALSE],
                     Append(r.events, BuildContentBlockStop(r.h.ContentBlockIndex)))
              ELSE r
        r2 == FirePing(R([r1.h EXCEPT !.ContentBlockStartSent = TRUE,
                                      !.ContentBlockStarted = TRUE,
                                      !.ContentBlockStopSent = FALSE],
                         Append(r1.events,
                                BuildContentBlockStart(r1.h.ContentBlockIndex, "thinking"))))
    IN R([r2.h EXCEPT !.InThinkBlock = TRUE], r2.events)

\* close the current block (if a start was sent) and open a thinking block
OpenThinking(r) ==
    LET r1 == IF r.h.ContentBlockStartSent
              THEN R([r.h EXCEPT !.ContentBlockStopSent = TRUE,
                                 !.ContentBlockStartSent = FALSE],
                     Append(r.events, BuildContentBlockStop(r.h.ContentBlockIndex)))
              ELSE r
        r2 == FirePing(R([r1.h EXCEPT !.ContentBlockIndex = @ + 1,
                                      !.ContentBlockStartSent = TRUE,
                                      !.ContentBlockStarted = TRUE,
                                      !.ContentBlockStopSent = FALSE],
                         Append(r1.events,
                                BuildContentBlockStart(r1.h.ContentBlockIndex + 1, "thinking"))))
    IN R([r2.h EXCEPT !.InThinkBlock = TRUE], r2.events)

\* the end tag was found: emit the thinking text and close the block
CloseThinking(r, thinkingText) ==
    LET ev1 == IF thinkingText # <<>>
               THEN Append(r.events, BuildContentBlockDelta(r.h.ContentBlockIndex, thinkingText))
               ELSE r.events
    IN R([r.h EXCEPT !.ContentBlockStopSent = TRUE,
                     !.ContentBlockStartSent = FALSE,
                     !.InThinkBlock = FALSE],
         Append(ev1, BuildContentBlockStop(r.h.ContentBlockIndex)))

\* "for pos < len(h.ThinkBuffer) { ... }"; returns the state, the events and
\* the final pos
RECURSIVE ScanThinkBuffer(_, _)
ScanThinkBuffer(r, pos) ==
    LET buf == r.h.ThinkBuffer IN
    IF ~(pos < Len(buf)) THEN [h |-> r.h, events |-> r.events, pos |-> pos]
    ELSE IF ~r.h.InThinkBlock
    THEN LET thinkStart0 == Index(Slice(buf, pos, Len(buf)), ThinkingStartTag) IN
         IF thinkStart0 # -1
         THEN LET thinkStart == thinkStart0 + pos
                  beforeText == Slice(buf, pos, thinkStart)
                  r1 == IF beforeText # <<>> THEN EmitText(r, beforeText) ELSE r
              IN ScanThinkBuffer(OpenThinking(r1), thinkStart + Len(ThinkingStartTag))
         ELSE LET r1 == EmitText(r, Slice(buf, pos, Len(buf)))
              IN [h |-> [r1.h EXCEPT !.ThinkBuffer = <<>>],
                  events |-> r1.events, pos |-> pos]
    ELSE LET thinkEnd0 == Index(Slice(buf, pos, Len(buf)), ThinkingEndTag) IN
         IF thinkEnd0 # -1
         THEN LET thinkEnd == thinkEnd0 + pos
              IN ScanThinkBuffer(CloseThinking(r, Slice(buf, pos, thinkEnd)),
                                 thinkEnd + Len(ThinkingEndTag))
         ELSE [h |-> [r.h EXCEPT !.ThinkBuffer = <<>>],
               events |-> Append(r.events,
                                 BuildContentBlockDelta(r.h.ContentBlockIndex,
                                                        Slice(buf, pos, Len(buf)))),
               pos |-> pos]

\* payloads: a JSON object is a record with isMap = TRUE; a field that is
\* absent or of another type reads as the zero value, as the Go type
\* assertions do.  hasInput = FALSE is a nil "input".
Payload(isMap, content, toolUseId, name, hasInput, input, stop) ==
    [isMap |-> isMap, content |-> content, toolUseId |-> toolUseId,
     name |-> name, hasInput |-> hasInput, input |-> input, stop |-> stop]

\* HandleInitialResponse without the MessageStartSent guard
HandleInitialResponseUnguarded(hh, payload) ==
    R([hh EXCEPT !.MessageStartSent = TRUE, !.PingPending = TRUE],
      <<BuildMessageStart>>)

\* 1. initial-response
HandleInitialResponse(hh, payload) ==
    IF ~hh.MessageStartSent
    THEN R([hh EXCEPT !.MessageStartSent = TRUE, !.PingPending = TRUE],
           <<BuildMessageStart>>)
    ELSE R(hh, <<>>)

\* 2. assistantResponseEvent
HandleAssistantResponseEvent(hh, payload) ==
    LET r0 == IF hh.CurrentToolUse # "" /\ ~hh.ContentBlockStopSent
              THEN R([hh EXCEPT !.ContentBlockStopSent = TRUE,
                                !.CurrentToolUse = ""],
                     <<BuildContentBlockStop(hh.ContentBlockIndex)>>)
              ELSE R(hh, <<>>)
    IN IF payload.content # <<>>
       THEN LET s == ScanThinkBuffer(
                        R([r0.h EXCEPT !.ThinkBuffer = @ \o payload.content],
                          r0.events), 0)
                rest == IF s.pos < Len(s.h.ThinkBuffer)
                        THEN Slice(s.h.ThinkBuffer, s.pos, Len(s.h.ThinkBuffer))
                        ELSE <<>>
            IN R([s.h EXCEPT !.ThinkBuffer = rest], s.events)
       ELSE r0

\* HandleToolUseEvent that starts a block for every event with an id and a
\* name, whether or not a tool is in progress
HandleToolUseEventAlwaysOpens(hh, payload) ==
    LET r1 == IF payload.toolUseId # "" /\ payload.name # ""
              THEN LET c == IF hh.ContentBlockStartSent /\ ~hh.ContentBlockStopSent
                            THEN R([hh EXCEPT !.ContentBlockStopSent = TRUE],
                                   <<BuildContentBlockStop(hh.ContentBlockIndex)>>)
                            ELSE R(hh, <<>>)
                       o == FirePing(
                              R([c.h EXCEPT
                                   !.ProcessedToolUseIDs = @ \cup {payload.toolUseId},
                                   !.ContentBlockIndex = @ + 1],
                                Append(c.events,
                                       BuildToolUseStart(c.h.ContentBlockIndex + 1,
                                                         payload.toolUseId, payload.name))))
                   IN R([o.h EXCEPT !.ContentBlockStarted = TRUE,
                                    !.CurrentToolUse = payload.toolUseId,
                                    !.ToolInputBuffer = <<>>,
                                    !.ContentBlockStopSent = FALSE,
                                    !.ContentBlockStartSent = TRUE],
                        o.events)
              ELSE R(hh, <<>>)
        r2 == IF r1.h.CurrentToolUse # "" /\ payload.hasInput
              THEN R([r1.h EXCEPT !.ToolInputBuffer = @ \o payload.input],
                     Append(r1.events,
                            BuildToolUseInputDelta(r1.h.ContentBlockIndex, payload.input)))
              ELSE r1
    IN IF payload.stop /\ r2.h.CurrentToolUse # ""
       THEN R([r2.h EXCEPT !.AllToolInputs = @ \o r2.h.ToolInputBuffer,
                           !.ContentBlockStopSent = TRUE,
                           !.ContentBlockStarted = FALSE,
                           !.CurrentToolUse = "",
                           !.ToolInputBuffer = <<>>],
              Append(r2.events, BuildContentBlockStop(r2.h.ContentBlockIndex)))
       ELSE r2

\* 3. toolUseEvent
HandleToolUseEvent(hh, payload) ==
    LET r1 == IF payload.toolUseId # "" /\ payload.name # "" /\ hh.CurrentToolUse = ""
              THEN LET c == IF hh.ContentBlockStartSent /\ ~hh.ContentBlockStopSent
                            THEN R([hh EXCEPT !.ContentBlockStopSent = TRUE],
                                   <<BuildContentBlockStop(hh.ContentBlockIndex)>>)
                            ELSE R(hh, <<>>)
                       o == FirePing(
                              R([c.h EXCEPT
                                   !.ProcessedToolUseIDs = @ \cup {payload.toolUseId},
                                   !.ContentBlockIndex = @ + 1],
                                Append(c.events,
                                       BuildToolUseStart(c.h.ContentBlockIndex + 1,
                                                         payload.toolUseId, payload.name))))
                   IN R([o.h EXCEPT !.ContentBlockStarted = TRUE,
                                    !.CurrentToolUse = payload.toolUseId,
                                    !.ToolInputBuffer = <<>>,
                                    !.ContentBlockStopSent = FALSE,
                                    !.ContentBlockStartSent = TRUE],
                        o.events)
              ELSE R(hh, <<>>)
        r2 == IF r1.h.CurrentToolUse # "" /\ payload.hasInput
              THEN R([r1.h EXCEPT !.ToolInputBuffer = @ \o payload.input],
                     Append(r1.events,
                            BuildToolUseInputDelta(r1.h.ContentBlockIndex, payload.input)))
              ELSE r1
    IN IF payload.stop /\ r2.h.CurrentToolUse # ""
       THEN R([r2.h EXCEPT !.AllToolInputs = @ \o r2.h.ToolInputBuffer,
                           !.ContentBlockStopSent = TRUE,
                           !.ContentBlockStarted = FALSE,
                           !.CurrentToolUse = "",
                           !.ToolInputBuffer = <<>>],
              Append(r2.events, BuildContentBlockStop(r2.h.ContentBlockIndex)))
       ELSE r2

\* HandleAssistantResponseEnd without the test that a block was started
HandleAssistantResponseEndUnguarded(hh, payload) ==
    IF ~hh.ContentBlockStopSent
    THEN R([hh EXCEPT !.ContentBlockStopSent = TRUE],
           <<BuildContentBlockStop(hh.ContentBlockIndex)>>)
    ELSE R(hh, <<>>)

\* 4. assistantResponseEnd
HandleAssistantResponseEnd(hh, payload) ==
    IF hh.ContentBlockStarted /\ ~hh.ContentBlockStopSent
    THEN R([hh EXCEPT !.ContentBlockStopSent = TRUE],
           <<BuildContentBlockStop(hh.ContentBlockIndex)>>)
    ELSE R(hh, <<>>)

\* HandleEvent without the type assertion on the payload: the fields of a
\* payload that is no object read as zero values
HandleEventAnyPayload(hh, eventType, payload) ==
    IF eventType = "initial-response" THEN HandleInitialResponse(hh, payload)
    ELSE IF eventType = "assistantResponseEvent" THEN HandleAssistantResponseEvent(hh, payload)
    ELSE IF eventType = "toolUseEvent" THEN HandleToolUseEvent(hh, payload)
    ELSE IF eventType = "assistantResponseEnd" THEN HandleAssistantResponseEnd(hh, payload)
    ELSE R(hh, <<>>)

HandleEvent(hh, eventType, payload) ==
    IF ~payload.isMap THEN R(hh, <<>>)
    ELSE IF eventType = "initial-response" THEN HandleInitialResponse(hh, payload)
    ELSE IF eventType = "assistantResponseEvent" THEN HandleAssistantResponseEvent(hh, payload)
    ELSE IF eventType = "toolUseEvent" THEN HandleToolUseEvent(hh, payload)
    ELSE IF eventType = "assistantResponseEnd" THEN HandleAssistantResponseEnd(hh, payload)
    ELSE R(hh, <<>>)

\* OutputTokens rounding the quotient up
OutputTokensCeil(hh) ==
    LET n == (Len(hh.ResponseBuffer) + Len(hh.AllToolInputs) + 3) \div 4
    IN IF n < 1 THEN 1 ELSE n

\* OutputTokens without the floor at 1
OutputTokensNoFloor(hh) ==
    (Len(hh.ResponseBuffer) + Len(hh.AllToolInputs)) \div 4

\* integer division of the joined lengths, floored at 1
OutputTokens(hh) ==
    LET n == (Len(hh.ResponseBuffer) + Len(hh.AllToolInputs)) \div 4
    IN IF n < 1 THEN 1 ELSE n

Finish(hh) ==
    LET r == IF hh.ContentBlockStarted /\ ~hh.ContentBlockStopSent
             THEN R([hh EXCEPT !.ContentBlockStopSent = TRUE],
                    <<BuildContentBlockStop(hh.ContentBlockIndex)>>)
             ELSE R(hh, <<>>)
    IN R(r.h, r.events \o BuildMessageStop(OutputTokens(r.h)))

(* --------------------- the handler as a state machine ------------------ *)
\* h: the ClaudeStreamHandler; out: every SSE event emitted so far, in
\* order; pc: "running" until Finish has been called; log: the classified
\* events handled so far with the number of SSE events each one emitted.
Chars(str) == CASE str = "a" -> <<"a">>
                [] str = "<thinking>" -> ThinkingStartTag
                [] str = "</thinking>" -> ThinkingEndTag
                [] str = "<thi" -> <<"<", "t", "h", "i">>
                [] str = "nking>" -> <<"n", "k", "i", "n", "g", ">">>
                [] OTHER -> <<>>

\* text fragments an assistantResponseEvent may carry
Fragments == { Chars(str) : str \in {"", "a", "<thinking>", "</thinking>", "<thi", "nking>"} }

\* payloads a toolUseEvent may carry
ToolPayloads ==
    { Payload(TRUE, <<>>, "t1", "n", FALSE, <<>>, FALSE),
      Payload(TRUE, <<>>, "t1", "n", TRUE, <<"x">>, FALSE),
      Payload(TRUE, <<>>, "t1", "n", TRUE, <<"x">>, TRUE),
      Payload(TRUE, <<>>, "t1", "n", FALSE, <<>>, TRUE),
      Payload(TRUE, <<>>, "t2", "n", TRUE, <<"{", "}">>, TRUE),
      Payload(TRUE, <<>>, "", "", TRUE, <<"x">>, FALSE) }

EmptyObject == Payload(TRUE, <<>>, "", "", FALSE, <<>>, FALSE)
NonObject == Payload(FALSE, <<>>, "", "", FALSE, <<>>, FALSE)

EventTypes == {"initial-response", "assistantResponseEvent", "toolUseEvent",
               "assistantResponseEnd"}

PipeIdle ==
    /\ script = <<>>
    /\ decoder = [at |-> "idle", n |-> 0]
    /\ transcoder = [at |-> "idle", pending |-> <<>>]
    /\ sseChan = <<>> /\ sseClosed = FALSE
    /\ delivery = [at |-> "idle", clientGone |-> FALSE]
    /\ received = <<>>

NoCall == [fn |-> "none"]
CallIdle == callIn = NoCall /\ callOut = NoCall

NoAnswer == [status |-> 0, body |-> ""]
FlowIdle ==
    /\ upstream = [answer |-> NoAnswer, attempts |-> 0]
    /\ response = NoAnswer

\* sync.RWMutex: the holder of the write lock and the holders of read locks
NoWriter == <<"none", 0>>
Unlocked == [writer |-> NoWriter, readers |-> {}]

CacheIdle ==
    /\ tokenMap = <<>> /\ entries = <<>>
    /\ tokenMutex = Unlocked
    /\ refresher = [at |-> "off"]
    /\ requests = <<>>

ServerIdle == FlowIdle /\ CacheIdle

ParserIdle ==
    /\ reader = <<>> /\ buffer = <<>> /\ eventChan = <<>>
    /\ chanClosed = FALSE /\ ppc = [at |-> "idle", rerr |-> "nil"]
    /\ frames = <<>>

Init ==
    /\ h = NewClaudeStreamHandler
    /\ out = <<>>
    /\ pc = "running"
    /\ nEvents = 0
    /\ log = <<>>
    /\ ParserIdle
    /\ PipeIdle
    /\ CallIdle
    /\ ServerIdle

\* one iteration of ProcessEventStream's loop: HandleEvent on one event
Handle(eventType, payload) ==
    /\ pc = "running"
    /\ nEvents < MaxEvents
    /\ LET r == HandleEvent(h, eventType, payload) IN
         /\ h' = r.h
         /\ out' = out \o r.events
         /\ log' = Append(log, [eventType |-> eventType, payload |-> payload,
                                emitted |-> Len(r.events)])
    /\ nEvents' = nEvents + 1
    /\ UNCHANGED <<pc, parserVars, pipeVars, callVars, flowVars, cacheVars>>

RecvInitialResponse == Handle("initial-response", EmptyObject)

RecvAssistantResponseEvent ==
    \E content \in Fragments :
        Handle("assistantResponseEvent", [EmptyObject EXCEPT !.content = content])

RecvToolUseEvent == \E p \in ToolPayloads : Handle("toolUseEvent", p)

RecvAssistantResponseEnd == Handle("assistantResponseEnd", EmptyObject)

RecvNonObjectPayload ==
    \E t \in {"initial-response", "assistantResponseEnd"} : Handle(t, NonObject)

\* the event source is exhausted: ProcessEventStream calls Finish once
CallFinish ==
    /\ pc = "running"
    /\ LET r == Finish(h) IN
         /\ h' = r.h
         /\ out' = out \o r.events
    /\ pc' = "finished"
    /\ UNCHANGED <<nEvents, log, parserVars, pipeVars, callVars, flowVars, cacheVars>>

Next ==
    \/ RecvInitialResponse
    \/ RecvAssistantResponseEvent
    \/ RecvToolUseEvent
    \/ RecvAssistantResponseEnd
    \/ RecvNonObjectPayload
    \/ CallFinish

Spec == Init /\ [][Next]_vars

(* ------------------------- event-stream decoder ------------------------ *)
Min(a, b) == IF a < b THEN a ELSE b

\* A uint32 is kept as its two 16-bit halves [hi, lo], so that its full
\* range and its wrap-around are represented.
\* binary.BigEndian.Uint32 / Uint16 of the bytes at 0-based offset off
Uint32(b, off) ==
    [hi |-> b[off + 1] * 256 + b[off + 2], lo |-> b[off + 3] * 256 + b[off + 4]]
Uint16(b, off) == b[off + 1] * 256 + b[off + 2]

\* uint32 addition and subtraction of a small constant, modulo 2^32
Add32(u, k) ==
    [hi |-> (u.hi + ((u.lo + k) \div 65536)) % 65536, lo |-> (u.lo + k) % 65536]
Sub32(u, k) ==
    IF u.lo >= k THEN [hi |-> u.hi, lo |-> u.lo - k]
    ELSE [hi |-> (u.hi + 65535) % 65536, lo |-> u.lo + 65536 - k]
Less32(u, v) == u.hi < v.hi \/ (u.hi = v.hi /\ u.lo < v.lo)
\* n < int(u) for a length n below 2^16
IntLess(n, u) == u.hi > 0 \/ n < u.lo
\* int(u) for a u known to be at most a length
ToInt(u) == u.lo

\* headers is a function from header names to values; a later header of the
\* same name replaces the earlier one
RECURSIVE ParseHeadersFrom(_, _, _)
ParseHeadersFrom(headersData, offset, headers) ==
    IF ~(offset < Len(headersData)) THEN headers
    ELSE LET nameLength == headersData[offset + 1]
             o1 == offset + 1 IN
         IF o1 + nameLength > Len(headersData) THEN headers
         ELSE LET name == Slice(headersData, o1, o1 + nameLength)
                  o2 == o1 + nameLength IN
              IF o2 >= Len(headersData) THEN headers
              ELSE LET o3 == o2 + 1 IN
                   IF o3 + 2 > Len(headersData) THEN headers
                   ELSE LET valueLength == Uint16(headersData, o3)
                            o4 == o3 + 2 IN
                        IF o4 + valueLength > Len(headersData) THEN headers
                        ELSE ParseHeadersFrom(
                                 headersData, o4 + valueLength,
                                 (name :> Slice(headersData, o4, o4 + valueLength)) @@ headers)

ParseHeaders(headersData) == ParseHeadersFrom(headersData, 0, <<>>)

NoMessage == [Headers |-> <<>>, Payload |-> <<>>, TotalLength |-> 0]

\* status "ok": a message; "err": the error return; "panic": a slice
\* expression out of range (data[12:12+headersLength] with a wrapped or too
\* large end, or data[payloadStart:payloadEnd] with payloadStart >
\* payloadEnd).  uint32 arithmetic wraps.  The payload is kept as its bytes.
ParseMessage(data) ==
    IF Len(data) < 16 THEN [status |-> "err", msg |-> NoMessage]
    ELSE LET totalLength == Uint32(data, 0)
             headersLength == Uint32(data, 4)
             payloadStart == Add32(headersLength, 12)
             payloadEnd == Sub32(totalLength, 4) IN
         IF IntLess(Len(data), totalLength) THEN [status |-> "err", msg |-> NoMessage]
         ELSE IF \/ Less32(payloadStart, [hi |-> 0, lo |-> 12])
                 \/ Less32(payloadEnd, payloadStart)
                 \/ IntLess(Len(data), payloadEnd)
         THEN [status |-> "panic", msg |-> NoMessage]
         ELSE [status |-> "ok",
               msg |-> [Headers |-> ParseHeaders(Slice(data, 12, ToInt(payloadStart))),
                        Payload |-> Slice(data, ToInt(payloadStart), ToInt(payloadEnd)),
                        TotalLength |-> ToInt(totalLength)]]

\* len(chunk) of ParseStream's read buffer
ChunkSize == 4096

(* byte streams the upstream body may carry *)
U32(n) == <<0, 0, n \div 256, n % 256>>
EncodeHeader(name, value) ==
    <<Len(name)>> \o name \o <<7>> \o <<Len(value) \div 256, Len(value) % 256>> \o value
Crc == <<0, 0, 0, 0>>
WellFormedFrame(headerBlock, payload) ==
    U32(16 + Len(headerBlock) + Len(payload)) \o U32(Len(headerBlock)) \o Crc
        \o headerBlock \o payload \o Crc

FrameBytes(f) ==
    CASE f = "goodA" -> WellFormedFrame(EncodeHeader(<<101>>, <<1>>), <<>>)
      [] f = "goodB" -> WellFormedFrame(<<>>, <<123, 125>>)
      \* headers length 1 in a 16-byte frame: 12 + 1 > 16 - 4
      [] f = "badHeaders" -> U32(16) \o U32(1) \o Crc \o Crc
      \* declared total length 12 < 16: a bare prelude
      [] f = "short" -> U32(12) \o U32(0) \o Crc
      \* declared total length 0
      [] f = "zero" -> U32(0) \o U32(0) \o Crc
      \* headers length 2^32 - 4: 12 + headersLength wraps to 8
      [] f = "wrapHeaders" -> U32(16) \o <<255, 255, 255, 252>> \o Crc \o Crc

FrameKinds == {"goodA", "goodB", "badHeaders", "short", "zero", "wrapHeaders"}
WellFormedKinds == {"goodA", "goodB"}

RECURSIVE Concat(_)
Concat(fs) == IF fs = <<>> THEN <<>> ELSE FrameBytes(Head(fs)) \o Concat(Tail(fs))

FrameSeqs == UNION { [1..n -> FrameKinds] : n \in 0..MaxFrames }

HandlerIdle ==
    /\ h = NewClaudeStreamHandler /\ out = <<>> /\ pc = "idle"
    /\ nEvents = 0 /\ log = <<>>

\* ParseStream is entered with an empty buffer; reader holds the bytes the
\* body has not yet returned; rerr is the err of the last Read
InitParse ==
    /\ HandlerIdle
    /\ PipeIdle
    /\ CallIdle
    /\ ServerIdle
    /\ frames \in FrameSeqs
    /\ reader = Concat(frames)
    /\ buffer = <<>>
    /\ eventChan = <<>>
    /\ chanClosed = FALSE
    /\ ppc = [at |-> "read", rerr |-> "nil"]

\* "if err == io.EOF { break }; if err != nil { return err }" and the
\* deferred close(eventChan)
AfterRead(err) ==
    /\ ppc' = [at |-> (IF err = "EOF" THEN "done"
                       ELSE IF err = "fail" THEN "failed" ELSE "read"),
               rerr |-> err]
    /\ chanClosed' = (err # "nil")

\* Read with "buffer = chunk[:n]" in place of the append
ReadNoAccumulate ==
    /\ ppc.at = "read"
    /\ \E n \in 0..Min(ChunkSize, Len(reader)), err \in {"nil", "EOF", "fail"} :
         /\ err = "EOF" => n = Len(reader)
         /\ err = "nil" => n > 0
         /\ reader' = Slice(reader, n, Len(reader))
         /\ buffer' = Slice(reader, 0, n)
         /\ IF n > 0
            THEN ppc' = [at |-> "scan", rerr |-> err] /\ UNCHANGED chanClosed
            ELSE AfterRead(err)
    /\ UNCHANGED <<eventChan, frames, handlerVars, pipeVars, callVars, flowVars, cacheVars>>

\* n, err := reader.Read(chunk): n bytes are appended to buffer; EOF can
\* only come with the last bytes, a failure at any point
Read ==
    /\ ppc.at = "read"
    /\ \E n \in 0..Min(ChunkSize, Len(reader)), err \in {"nil", "EOF", "fail"} :
         /\ err = "EOF" => n = Len(reader)
         /\ err = "nil" => n > 0
         /\ reader' = Slice(reader, n, Len(reader))
         /\ buffer' = buffer \o Slice(reader, 0, n)
         /\ IF n > 0
            THEN ppc' = [at |-> "scan", rerr |-> err] /\ UNCHANGED chanClosed
            ELSE AfterRead(err)
    /\ UNCHANGED <<eventChan, frames, handlerVars, pipeVars, callVars, flowVars, cacheVars>>

\* the inner loop ends: fewer than 12 bytes, or the declared frame is not
\* complete yet
ScanBreak ==
    /\ ppc.at = "scan"
    /\ IF Len(buffer) < 12 THEN TRUE ELSE IntLess(Len(buffer), Uint32(buffer, 0))
    /\ AfterRead(ppc.rerr)
    /\ UNCHANGED <<reader, buffer, eventChan, frames, handlerVars, pipeVars, callVars, flowVars, cacheVars>>

\* one iteration of the inner loop that cuts totalLength bytes off buffer
ScanFrame ==
    /\ ppc.at = "scan"
    /\ Len(buffer) >= 12
    /\ LET totalLength == Uint32(buffer, 0) IN
         /\ ~IntLess(Len(buffer), totalLength)
         /\ LET res == ParseMessage(Slice(buffer, 0, ToInt(totalLength))) IN
              /\ buffer' = Slice(buffer, ToInt(totalLength), Len(buffer))
              /\ eventChan' = IF res.status = "ok" THEN Append(eventChan, res.msg)
                              ELSE eventChan
              /\ ppc' = IF res.status = "panic" THEN [at |-> "panic", rerr |-> ppc.rerr]
                        ELSE ppc
              \* the deferred close runs while the panic unwinds
              /\ chanClosed' = (res.status = "panic")
    /\ UNCHANGED <<reader, frames, handlerVars, pipeVars, callVars, flowVars, cacheVars>>

NextParse == Read \/ ScanBreak \/ ScanFrame

SpecParse == InitParse /\ [][NextParse]_vars

\* the decode goroutine is never suspended for ever while it can take a step
SpecParseFair == InitParse /\ [][NextParse]_vars /\ WF_vars(NextParse)

(* ----------------------- non-streaming aggregator ---------------------- *)
\* The event strings put on sseChan: HandleEvent's events are one string
\* each; BuildMessageStop returns message_delta and message_stop joined in
\* one string.
RECURSIVE AsStrings(_)
AsStrings(evs) ==
    IF evs = <<>> THEN <<>>
    ELSE IF Len(evs) >= 2 /\ evs[1].type = "message_delta" /\ evs[2].type = "message_stop"
    THEN << <<evs[1], evs[2]>> >> \o AsStrings(Tail(Tail(evs)))
    ELSE << <<evs[1]>> >> \o AsStrings(Tail(evs))

\* a content block of finalContent; type "nil" is a nil slot.  hasText and
\* hasPartial tell whether the "text" and "partial_json" keys are present.
Block(type, hasText, text, id, input, hasPartial, partial) ==
    [type |-> type, hasText |-> hasText, text |-> text, id |-> id,
     input |-> input, hasPartial |-> hasPartial, partial |-> partial]
NilBlock == Block("nil", FALSE, <<>>, "", <<>>, FALSE, <<>>)
EmptyJSONObject == <<"{", "}">>

\* json.Unmarshal into a map, over the characters tool input is made of
\* here ("x", "{", "}"): the only text that is a JSON object is "{}"
ParsesAsJSONObject(text) == text = EmptyJSONObject

\* data["content_block"] of a content_block_start
ContentBlockOf(ev) ==
    IF ev.kind = "tool_use"
    THEN Block("tool_use", FALSE, <<>>, ev.id, EmptyJSONObject, FALSE, <<>>)
    ELSE Block(ev.kind, TRUE, <<>>, "", <<>>, FALSE, <<>>)

RECURSIVE Nils(_)
Nils(n) == IF n <= 0 THEN <<>> ELSE <<NilBlock>> \o Nils(n - 1)

\* each step returns [status, fc]; status "panic" is an index out of range
AggStart(fc, ev) ==
    LET grown == fc \o Nils(ev.index + 1 - Len(fc)) IN
    IF ev.index < 0 THEN [status |-> "panic", fc |-> fc]
    ELSE [status |-> "ok", fc |-> [grown EXCEPT ![ev.index + 1] = ContentBlockOf(ev)]]

\* the text_delta branch with "block[text] = text" in place of the append
AggDeltaOverwrite(fc, ev) ==
    IF ev.index < 0 \/ ev.index >= Len(fc) THEN [status |-> "panic", fc |-> fc]
    ELSE LET block == fc[ev.index + 1] IN
         IF block.type = "nil" THEN [status |-> "ok", fc |-> fc]
         ELSE IF ev.kind = "text_delta"
         THEN [status |-> "ok",
               fc |-> [fc EXCEPT ![ev.index + 1] =
                          [block EXCEPT !.hasText = TRUE, !.text = ev.text]]]
         ELSE IF ev.kind = "input_json_delta"
         THEN [status |-> "ok",
               fc |-> [fc EXCEPT ![ev.index + 1] =
                          [block EXCEPT !.hasPartial = TRUE, !.partial = @ \o ev.text]]]
         ELSE [status |-> "ok", fc |-> fc]

AggDelta(fc, ev) ==
    IF ev.index < 0 \/ ev.index >= Len(fc) THEN [status |-> "panic", fc |-> fc]
    ELSE LET block == fc[ev.index + 1] IN
         IF block.type = "nil" THEN [status |-> "ok", fc |-> fc]
         ELSE IF ev.kind = "text_delta"
         THEN [status |-> "ok",
               fc |-> [fc EXCEPT ![ev.index + 1] =
                          [block EXCEPT !.hasText = TRUE, !.text = @ \o ev.text]]]
         ELSE IF ev.kind = "input_json_delta"
         THEN [status |-> "ok",
               fc |-> [fc EXCEPT ![ev.index + 1] =
                          [block EXCEPT !.hasPartial = TRUE, !.partial = @ \o ev.text]]]
         ELSE [status |-> "ok", fc |-> fc]

\* on a tool_use block with a partial_json: input is set when it parses,
\* and partial_json is deleted in both cases
AggStop(fc, ev) ==
    IF ev.index < 0 \/ ev.index >= Len(fc) THEN [status |-> "panic", fc |-> fc]
    ELSE LET block == fc[ev.index + 1] IN
         IF block.type = "tool_use" /\ block.hasPartial
         THEN [status |-> "ok",
               fc |-> [fc EXCEPT ![ev.index + 1] =
                          [block EXCEPT
                             !.input = IF ParsesAsJSONObject(block.partial)
                                       THEN block.partial ELSE @,
                             !.hasPartial = FALSE,
                             !.partial = <<>>]]]
         ELSE [status |-> "ok", fc |-> fc]

NewAggregate ==
    [status |-> "ok", finalContent |-> <<>>, outputTokens |-> 0, stopReason |-> "null"]

\* one iteration of "for sseEvent := range sseChan": the first "data: " line
\* of the string is decoded and dispatched on its type
AggStep(a, str) ==
    LET data == str[1] IN
    IF a.status # "ok" THEN a
    ELSE IF data.type \in {"content_block_start", "content_block_delta", "content_block_stop"}
    THEN LET r == IF data.type = "content_block_start" THEN AggStart(a.finalContent, data)
                  ELSE IF data.type = "content_block_delta" THEN AggDelta(a.finalContent, data)
                  ELSE AggStop(a.finalContent, data)
         IN [a EXCEPT !.status = r.status, !.finalContent = r.fc]
    ELSE IF data.type = "message_delta"
    THEN [a EXCEPT !.outputTokens = data.usage, !.stopReason = data.kind]
    ELSE a

RECURSIVE AggregateFrom(_, _)
AggregateFrom(a, strs) ==
    IF strs = <<>> THEN a ELSE AggregateFrom(AggStep(a, Head(strs)), Tail(strs))

Aggregate(strs) == AggregateFrom(NewAggregate, strs)

\* the JSON response: nil slots are filtered out
Response(a) ==
    [content |-> SelectSeq(a.finalContent, LAMBDA b : b.type # "nil"),
     stop_reason |-> a.stopReason,
     output_tokens |-> a.outputTokens]

(* ----------------------- the per-request pipeline ---------------------- *)
(* The decode goroutine (SendChatRequest), the transcode goroutine         *)
(* (ProcessEventStream) and the streaming delivery loop (c.Stream in       *)
(* handleClaudeMessages), joined by the buffered channels eventChan and    *)
(* sseChan.  The decoder is taken per decoded frame: script is the list of *)
(* messages ParseStream will decode from the body, already classified by   *)
(* ExtractEventInfo.  An item of sseChan is one Go string, here the list   *)
(* of SSE events the string carries.                                       *)

\* capacity of eventChan and of sseChan: "make(chan ..., 100)" in the code,
\* scaled down so that a full channel is reached within MaxUpstream frames
QueueCap == 2
\* number of frames the upstream body carries
MaxUpstream == 4

EventInfo(eventType, payload) == [EventType |-> eventType, Payload |-> payload]

\* a complete tool call: start, input delta and stop, three event strings
ToolCallFrame ==
    EventInfo("toolUseEvent", Payload(TRUE, <<>>, "t1", "n", TRUE, <<"x">>, TRUE))

\* the frames a body is made of: text, a complete tool call, a frame without
\* an event-type header
UpstreamFrames ==
    { EventInfo("assistantResponseEvent", Payload(TRUE, <<"a">>, "", "", FALSE, <<>>, FALSE)),
      ToolCallFrame,
      EventInfo("", EmptyObject) }

Scripts == UNION {[1..n -> UpstreamFrames] : n \in 0..MaxUpstream}

InitPipe ==
    /\ h = NewClaudeStreamHandler /\ out = <<>> /\ pc = "idle"
    /\ nEvents = 0 /\ log = <<>>
    /\ reader = <<>> /\ buffer = <<>> /\ ppc = [at |-> "idle", rerr |-> "nil"]
    /\ frames = <<>>
    /\ CallIdle
    /\ ServerIdle
    /\ script \in Scripts
    /\ eventChan = <<>> /\ chanClosed = FALSE
    /\ decoder = [at |-> "read", n |-> 0]
    /\ transcoder = [at |-> "recv", pending |-> <<>>]
    /\ sseChan = <<>> /\ sseClosed = FALSE
    /\ delivery = [at |-> "select", clientGone |-> FALSE]
    /\ received = <<>>

pipeRest == <<pc, nEvents, log, reader, buffer, ppc, frames, callVars, flowVars,
             cacheVars>>

\* ParseStream has decoded the next frame of the body
DecodeRead ==
    /\ decoder.at = "read"
    /\ decoder.n < Len(script)
    /\ decoder' = [at |-> "send", n |-> decoder.n + 1]
    /\ UNCHANGED <<h, out, script, eventChan, chanClosed, transcoder, sseChan,
                   sseClosed, delivery, received, pipeRest>>

\* DecodeSend on a channel without capacity
DecodeSendUnbounded ==
    /\ decoder.at = "send"
    /\ eventChan' = Append(eventChan, script[decoder.n])
    /\ decoder' = [decoder EXCEPT !.at = "read"]
    /\ UNCHANGED <<h, out, script, chanClosed, transcoder, sseChan,
                   sseClosed, delivery, received, pipeRest>>

\* "eventChan <- message": blocks while the channel is full
DecodeSend ==
    /\ decoder.at = "send"
    /\ Len(eventChan) < QueueCap
    /\ eventChan' = Append(eventChan, script[decoder.n])
    /\ decoder' = [decoder EXCEPT !.at = "read"]
    /\ UNCHANGED <<h, out, script, chanClosed, transcoder, sseChan,
                   sseClosed, delivery, received, pipeRest>>

\* end of the body: ParseStream's "defer close(eventChan)"
DecodeEOF ==
    /\ decoder.at = "read"
    /\ decoder.n = Len(script)
    /\ chanClosed' = TRUE
    /\ decoder' = [decoder EXCEPT !.at = "done"]
    /\ UNCHANGED <<h, out, script, eventChan, transcoder, sseChan,
                   sseClosed, delivery, received, pipeRest>>

\* "for message := range eventChan": one message is taken and handled
TranscodeRecv ==
    /\ transcoder.at = "recv"
    /\ eventChan # <<>>
    /\ LET message == Head(eventChan)
           r == IF message.EventType # ""
                THEN HandleEvent(h, message.EventType, message.Payload)
                ELSE R(h, <<>>)
       IN /\ h' = r.h
          /\ out' = out \o r.events
          /\ transcoder' = [at |-> IF r.events = <<>> THEN "recv" ELSE "send",
                            pending |-> AsStrings(r.events)]
    /\ eventChan' = Tail(eventChan)
    /\ UNCHANGED <<script, chanClosed, decoder, sseChan, sseClosed, delivery,
                   received, pipeRest>>

\* the range loop ends on the closed, drained channel: handler.Finish()
TranscodeFinish ==
    /\ transcoder.at = "recv"
    /\ eventChan = <<>> /\ chanClosed
    /\ LET r == Finish(h)
       IN /\ h' = r.h
          /\ out' = out \o r.events
          /\ transcoder' = [at |-> "sendFinal", pending |-> AsStrings(r.events)]
    /\ UNCHANGED <<script, eventChan, chanClosed, decoder, sseChan, sseClosed,
                   delivery, received, pipeRest>>

\* TranscodeSend that puts the event in front of the queued ones
TranscodeSendFront ==
    /\ transcoder.at \in {"send", "sendFinal"}
    /\ Len(sseChan) < QueueCap
    /\ sseChan' = <<Head(transcoder.pending)>> \o sseChan
    /\ LET rest == Tail(transcoder.pending)
       IN /\ transcoder' =
               [at |-> IF rest # <<>> THEN transcoder.at
                       ELSE IF transcoder.at = "send" THEN "recv" ELSE "done",
                pending |-> rest]
          /\ sseClosed' = (rest = <<>> /\ transcoder.at = "sendFinal")
    /\ UNCHANGED <<h, out, script, eventChan, chanClosed, decoder, delivery,
                   received, pipeRest>>

\* "sseChan <- event": blocks while the channel is full; after the last
\* final event the goroutine returns and "defer close(sseChan)" runs
TranscodeSend ==
    /\ transcoder.at \in {"send", "sendFinal"}
    /\ Len(sseChan) < QueueCap
    /\ sseChan' = Append(sseChan, Head(transcoder.pending))
    /\ LET rest == Tail(transcoder.pending)
       IN /\ transcoder' =
               [at |-> IF rest # <<>> THEN transcoder.at
                       ELSE IF transcoder.at = "send" THEN "recv" ELSE "done",
                pending |-> rest]
          /\ sseClosed' = (rest = <<>> /\ transcoder.at = "sendFinal")
    /\ UNCHANGED <<h, out, script, eventChan, chanClosed, decoder, delivery,
                   received, pipeRest>>

\* c.Stream's loop: "select { case <-clientGone: return; default: step(w) }"
DeliverSelect ==
    /\ delivery.at = "select"
    /\ delivery' = [delivery EXCEPT
                      !.at = IF delivery.clientGone THEN "stopped" ELSE "recv"]
    /\ UNCHANGED <<h, out, script, eventChan, chanClosed, decoder, transcoder,
                   sseChan, sseClosed, received, pipeRest>>

\* "if event, ok := <-sseChan; ok { w.Write(event); Flush; return true }"
DeliverRecv ==
    /\ delivery.at = "recv"
    /\ sseChan # <<>>
    /\ received' = Append(received, Head(sseChan))
    /\ sseChan' = Tail(sseChan)
    /\ delivery' = [delivery EXCEPT !.at = "select"]
    /\ UNCHANGED <<h, out, script, eventChan, chanClosed, decoder, transcoder,
                   sseClosed, pipeRest>>

\* the receive on the closed, drained channel: "return false"
DeliverClosed ==
    /\ delivery.at = "recv"
    /\ sseChan = <<>> /\ sseClosed
    /\ delivery' = [delivery EXCEPT !.at = "done"]
    /\ UNCHANGED <<h, out, script, eventChan, chanClosed, decoder, transcoder,
                   sseChan, sseClosed, received, pipeRest>>

\* the client closes the connection while the response is streamed
ClientDisconnect ==
    /\ delivery.at \in {"select", "recv"}
    /\ ~delivery.clientGone
    /\ delivery' = [delivery EXCEPT !.clientGone = TRUE]
    /\ UNCHANGED <<h, out, script, eventChan, chanClosed, decoder, transcoder,
                   sseChan, sseClosed, received, pipeRest>>

DecodeStep == DecodeRead \/ DecodeSend \/ DecodeEOF
TranscodeStep == TranscodeRecv \/ TranscodeSend \/ TranscodeFinish
DeliverStep == DeliverSelect \/ DeliverRecv \/ DeliverClosed

NextPipe ==
    \/ DecodeRead
    \/ DecodeSend
    \/ DecodeEOF
    \/ TranscodeRecv
    \/ TranscodeSend
    \/ TranscodeFinish
    \/ DeliverSelect
    \/ DeliverRecv
    \/ DeliverClosed
    \/ ClientDisconnect

SpecPipe == InitPipe /\ [][NextPipe]_vars

\* bodies made of complete tool calls only
ToolCallScripts == {[i \in 1..n |-> ToolCallFrame] : n \in 0..MaxUpstream}

InitPipeFair == InitPipe /\ script \in ToolCallScripts

\* every goroutine that can take a step eventually takes one
SpecPipeFair ==
    /\ InitPipeFair
    /\ [][NextPipe]_vars
    /\ WF_vars(DecodeStep)
    /\ WF_vars(TranscodeStep)
    /\ WF_vars(DeliverStep)

\* a read error that leaves eventChan open: ParseStream without its
\* "defer close(eventChan)"
DecodeFailLeavesOpen ==
    /\ decoder.at = "read"
    /\ decoder' = [decoder EXCEPT !.at = "failed"]
    /\ UNCHANGED <<h, out, script, eventChan, chanClosed, transcoder, sseChan,
                   sseClosed, delivery, received, pipeRest>>

\* reader.Read returns an error other than io.EOF: ParseStream returns it
\* after "defer close(eventChan)", the goroutine prints it and ends; the
\* frames not yet read are lost
DecodeFail ==
    /\ decoder.at = "read"
    /\ chanClosed' = TRUE
    /\ decoder' = [decoder EXCEPT !.at = "failed"]
    /\ UNCHANGED <<h, out, script, eventChan, transcoder, sseChan,
                   sseClosed, delivery, received, pipeRest>>

\* a request whose client stays connected: the body ends at EOF or with a
\* read error
NextStream ==
    \/ DecodeRead
    \/ DecodeSend
    \/ DecodeEOF
    \/ DecodeFail
    \/ TranscodeRecv
    \/ TranscodeSend
    \/ TranscodeFinish
    \/ DeliverSelect
    \/ DeliverRecv
    \/ DeliverClosed

\* bodies of complete tool calls, and every body of at most two frames
StreamScripts == ToolCallScripts \cup { sc \in Scripts : Len(sc) <= 2 }

InitStream == InitPipe /\ script \in StreamScripts

\* every goroutine that can take a step eventually takes one, and the
\* delivery loop keeps consuming
SpecStreamFair ==
    /\ InitStream
    /\ [][NextStream]_vars
    /\ WF_vars(DecodeStep \/ DecodeFail)
    /\ WF_vars(TranscodeStep)
    /\ WF_vars(DeliverStep)

(* ------------------------- handleClaudeMessages ------------------------ *)
(* One streaming request from the upstream call on: SendChatRequest, then  *)
(* the pipeline above.                                                     *)

\* http.StatusBadGateway
StatusBadGateway == 502
\* "resp.StatusCode >= 400"
ErrorStatus == 400

\* what the upstream does with the request: an HTTP status and body, or a
\* transport error (status -1)
Answer(status, body) == [status |-> status, body |-> body]
TransportError == Answer(-1, "")
UpstreamAnswers ==
    { Answer(st, b) : st \in {200, 399, 400, 500}, b \in {"", "boom"} }
      \cup {TransportError}

\* err of SendChatRequest; empty (nil) when the stream was opened
SendChatRequestError(answer) ==
    IF answer = TransportError THEN <<"failed to send request: ">>
    ELSE IF answer.status >= ErrorStatus
    THEN <<"upstream error ", answer.status, ": ", answer.body>>
    ELSE <<>>

InitFlow ==
    /\ h = NewClaudeStreamHandler /\ out = <<>> /\ pc = "idle"
    /\ nEvents = 0 /\ log = <<>>
    /\ reader = <<>> /\ buffer = <<>> /\ ppc = [at |-> "idle", rerr |-> "nil"]
    /\ frames = <<>>
    /\ CallIdle
    /\ CacheIdle
    /\ script \in ToolCallScripts
    /\ eventChan = <<>> /\ chanClosed = FALSE
    /\ decoder = [at |-> "idle", n |-> 0]
    /\ transcoder = [at |-> "idle", pending |-> <<>>]
    /\ sseChan = <<>> /\ sseClosed = FALSE
    /\ delivery = [at |-> "idle", clientGone |-> FALSE]
    /\ received = <<>>
    /\ upstream \in {[answer |-> a, attempts |-> 0] : a \in UpstreamAnswers}
    /\ response = NoAnswer

\* the handler after a failed SendChatRequest: c.JSON(502, ...) and return
GatewayError(err) ==
    /\ response' = Answer(StatusBadGateway, <<"Failed to send request: ">> \o err)
    /\ UNCHANGED <<decoder, transcoder, delivery>>

\* the handler after SendChatRequest returned the channel: the decode
\* goroutine runs, ProcessEventStream starts the transcode goroutine and
\* c.Stream the delivery loop
StartStreaming ==
    /\ response' = Answer(200, "")
    /\ decoder' = [at |-> "read", n |-> 0]
    /\ transcoder' = [at |-> "recv", pending |-> <<>>]
    /\ delivery' = [at |-> "select", clientGone |-> FALSE]

\* CallSendChatRequest that takes only a server error for a failure
CallSendChatRequestLenient ==
    /\ upstream.attempts = 0
    /\ response = NoAnswer
    /\ upstream' = [upstream EXCEPT !.attempts = @ + 1]
    /\ IF upstream.answer.status >= 500
       THEN GatewayError(SendChatRequestError(upstream.answer))
       ELSE StartStreaming
    /\ UNCHANGED <<h, out, script, eventChan, chanClosed, sseChan, sseClosed,
                   received, pc, nEvents, log, reader, buffer, ppc, frames,
                   callVars, cacheVars>>

\* "eventChan, err := amazonq.SendChatRequest(...)": the one upstream call
CallSendChatRequest ==
    /\ upstream.attempts = 0
    /\ response = NoAnswer
    /\ upstream' = [upstream EXCEPT !.attempts = @ + 1]
    /\ IF SendChatRequestError(upstream.answer) # <<>>
       THEN GatewayError(SendChatRequestError(upstream.answer))
       ELSE StartStreaming
    /\ UNCHANGED <<h, out, script, eventChan, chanClosed, sseChan, sseClosed,
                   received, pc, nEvents, log, reader, buffer, ppc, frames,
                   callVars, cacheVars>>

NextFlow ==
    \/ CallSendChatRequest
    \/ DecodeRead
    \/ DecodeSend
    \/ DecodeEOF
    \/ TranscodeRecv
    \/ TranscodeSend
    \/ TranscodeFinish
    \/ DeliverSelect
    \/ DeliverRecv
    \/ DeliverClosed
    \/ ClientDisconnect

SpecFlow == InitFlow /\ [][NextFlow]_vars

(* ------------------------------ token cache --------------------------- *)
(* tokenMap and tokenMutex, AuthMiddleware run by concurrent requests and  *)
(* RefreshAllTokens run by the refresher goroutine.  tokenMap maps a hash  *)
(* to a *TokenCache: entries is the heap of TokenCache objects and an      *)
(* entry is named by its position in it.  A lock is taken in one step and  *)
(* the code under it runs, and releases it, in the next.                   *)

\* number of requests being authenticated
MaxRequests == 2

\* the credential of a request, split at ":" as parseBearerToken does;
\* the empty list is a request without credential
Credentials ==
    { <<>>, <<"id1", "secret">>, <<"id1", "", "r">>,
      <<"id1", "secret", "r1">>, <<"id2", "secret", "r2">> }

\* sha256Hash, taken to be free of collisions
sha256Hash(token) == <<"sha256", token>>

\* parseBearerToken: the three parts, or three empty strings
parseBearerToken(bearerToken) ==
    IF Len(bearerToken) < 3 THEN <<"", "", "">> ELSE bearerToken

TokenCache(accessToken, refreshToken, clientID, clientSecret) ==
    [AccessToken |-> accessToken, RefreshToken |-> refreshToken,
     ClientID |-> clientID, ClientSecret |-> clientSecret]

\* the access token an exchange made by `who` returns; every exchange
\* returns a token of its own
IssuedTo(who) == <<"access", who>>
\* what a read of AccessToken may give while the field is being written
TornToken == <<"access", <<"torn", 0>>>>

Requests == 1..MaxRequests

\* the goroutines that take the lock
Request(r) == <<"request", r>>
Refresher == <<"refresher", 0>>

InitCache ==
    /\ HandlerIdle
    /\ ParserIdle
    /\ PipeIdle
    /\ CallIdle
    /\ FlowIdle
    /\ tokenMap = <<>> /\ entries = <<>>
    /\ tokenMutex = Unlocked
    /\ refresher = [at |-> "idle", count |-> 0, tokens |-> <<>>, todo |-> {},
                    hash |-> <<>>, outcome |-> <<>>]
    /\ requests \in [Requests -> {[at |-> "start", token |-> t, cached |-> 0,
                                   accessToken |-> <<>>] : t \in Credentials}]

cacheRest == <<handlerVars, parserVars, pipeVars, callVars, flowVars>>

RLock(who) ==
    /\ tokenMutex.writer = NoWriter
    /\ tokenMutex' = [tokenMutex EXCEPT !.readers = @ \cup {who}]
RUnlock(who) == tokenMutex' = [tokenMutex EXCEPT !.readers = @ \ {who}]
Lock(who) ==
    /\ tokenMutex = Unlocked
    /\ tokenMutex' = [tokenMutex EXCEPT !.writer = who]
Unlock == tokenMutex' = Unlocked

\* m[k] = v added to or replaced in a Go map
MapSet(m, k, v) == [x \in DOMAIN m \cup {k} |-> IF x = k THEN v ELSE m[x]]
\* delete(m, k)
MapDelete(m, k) == [x \in DOMAIN m \ {k} |-> m[x]]

(* AuthMiddleware *)

\* the credential is read from the headers; none gives 401
ReqStart(r) ==
    /\ requests[r].at = "start"
    /\ requests' = [requests EXCEPT
                      ![r].at = IF requests[r].token = <<>> THEN "rejected" ELSE "rlock"]
    /\ UNCHANGED <<tokenMap, entries, tokenMutex, refresher, cacheRest>>

ReqRLock(r) ==
    /\ requests[r].at = "rlock"
    /\ RLock(Request(r))
    /\ requests' = [requests EXCEPT ![r].at = "lookup"]
    /\ UNCHANGED <<tokenMap, entries, refresher, cacheRest>>

\* "cached, exists := tokenMap[tokenHash]", then RUnlock
ReqLookup(r) ==
    /\ requests[r].at = "lookup"
    /\ LET tokenHash == sha256Hash(requests[r].token)
           exists == tokenHash \in DOMAIN tokenMap
       IN requests' = [requests EXCEPT
                         ![r].cached = IF exists THEN tokenMap[tokenHash] ELSE 0,
                         ![r].at = IF exists THEN "use" ELSE "parse"]
    /\ RUnlock(Request(r))
    /\ UNCHANGED <<tokenMap, entries, refresher, cacheRest>>

\* the refresher holds the write lock and is about to write this entry
BeingWritten(e) ==
    /\ refresher.at = "update"
    /\ refresher.hash \in DOMAIN tokenMap
    /\ tokenMap[refresher.hash] = e

\* "c.Set("accessToken", cached.AccessToken) ... c.Next()", after RUnlock: a
\* read that overlaps the refresher's write gives the old, the new or a torn
\* value
ReqUse(r) ==
    /\ requests[r].at = "use"
    /\ \E value \in IF BeingWritten(requests[r].cached)
                    THEN {entries[requests[r].cached].AccessToken,
                          IssuedTo(Refresher), TornToken}
                    ELSE {entries[requests[r].cached].AccessToken} :
          requests' = [requests EXCEPT ![r].accessToken = value, ![r].at = "passed"]
    /\ UNCHANGED <<tokenMap, entries, tokenMutex, refresher, cacheRest>>

\* ReqParse that tests the client id only
ReqParseIdOnly(r) ==
    /\ requests[r].at = "parse"
    /\ LET parts == parseBearerToken(requests[r].token)
       IN requests' = [requests EXCEPT
                         ![r].at = IF parts[1] = "" THEN "rejected" ELSE "exchange"]
    /\ UNCHANGED <<tokenMap, entries, tokenMutex, refresher, cacheRest>>

\* parseBearerToken and the test of its three parts; a bad format gives 401
ReqParse(r) ==
    /\ requests[r].at = "parse"
    /\ LET parts == parseBearerToken(requests[r].token)
       IN requests' = [requests EXCEPT
                         ![r].at = IF parts[1] = "" \/ parts[2] = "" \/ parts[3] = ""
                                   THEN "rejected" ELSE "exchange"]
    /\ UNCHANGED <<tokenMap, entries, tokenMutex, refresher, cacheRest>>

\* handleTokenRefresh: the exchange succeeds or fails; a failure gives 401
ReqExchange(r) ==
    /\ requests[r].at = "exchange"
    /\ \E ok \in BOOLEAN :
          requests' = [requests EXCEPT
                         ![r].accessToken = IF ok THEN IssuedTo(Request(r)) ELSE <<>>,
                         ![r].at = IF ok THEN "lock" ELSE "rejected"]
    /\ UNCHANGED <<tokenMap, entries, tokenMutex, refresher, cacheRest>>

ReqLock(r) ==
    /\ requests[r].at = "lock"
    /\ Lock(Request(r))
    /\ requests' = [requests EXCEPT ![r].at = "insert"]
    /\ UNCHANGED <<tokenMap, entries, refresher, cacheRest>>

\* "tokenMap[tokenHash] = &TokenCache{...}", Unlock, c.Next()
ReqInsert(r) ==
    /\ requests[r].at = "insert"
    /\ LET parts == parseBearerToken(requests[r].token)
       IN entries' = Append(entries, TokenCache(requests[r].accessToken,
                                                parts[3], parts[1], parts[2]))
    /\ tokenMap' = MapSet(tokenMap, sha256Hash(requests[r].token), Len(entries) + 1)
    /\ Unlock
    /\ requests' = [requests EXCEPT ![r].cached = Len(entries) + 1, ![r].at = "passed"]
    /\ UNCHANGED <<refresher, cacheRest>>

(* RefreshAllTokens *)

\* the ticker fires: RLock for "count := len(tokenMap)"
RefCountLock ==
    /\ refresher.at = "idle"
    /\ RLock(Refresher)
    /\ refresher' = [refresher EXCEPT !.at = "count"]
    /\ UNCHANGED <<tokenMap, entries, requests, cacheRest>>

\* "count := len(tokenMap)", RUnlock; an empty cache ends the cycle
RefCount ==
    /\ refresher.at = "count"
    /\ LET count == Cardinality(DOMAIN tokenMap)
       IN refresher' = [refresher EXCEPT
                          !.count = count,
                          !.at = IF count = 0 THEN "idle" ELSE "snaplock"]
    /\ RUnlock(Refresher)
    /\ UNCHANGED <<tokenMap, entries, requests, cacheRest>>

RefSnapLock ==
    /\ refresher.at = "snaplock"
    /\ RLock(Refresher)
    /\ refresher' = [refresher EXCEPT !.at = "snapshot"]
    /\ UNCHANGED <<tokenMap, entries, requests, cacheRest>>

\* the copy of tokenMap into tokens, RUnlock
RefSnapshot ==
    /\ refresher.at = "snapshot"
    /\ refresher' = [refresher EXCEPT !.tokens = tokenMap, !.todo = DOMAIN tokenMap,
                                      !.at = "next"]
    /\ RUnlock(Refresher)
    /\ UNCHANGED <<tokenMap, entries, requests, cacheRest>>

\* "for hash, cache := range tokens": the next entry, in any order
RefNext ==
    /\ refresher.at = "next"
    /\ refresher.todo # {}
    /\ \E hash \in refresher.todo :
          refresher' = [refresher EXCEPT !.hash = hash, !.todo = @ \ {hash},
                                         !.at = "refresh"]
    /\ UNCHANGED <<tokenMap, entries, tokenMutex, requests, cacheRest>>

\* the loop is over: the cycle is complete
RefDone ==
    /\ refresher.at = "next"
    /\ refresher.todo = {}
    /\ refresher' = [refresher EXCEPT !.at = "done"]
    /\ UNCHANGED <<tokenMap, entries, tokenMutex, requests, cacheRest>>

\* handleTokenRefresh(cache.ClientID, cache.ClientSecret, cache.RefreshToken),
\* without the lock: the exchange succeeds or fails
RefRefresh ==
    /\ refresher.at = "refresh"
    /\ \E ok \in BOOLEAN :
          refresher' = [refresher EXCEPT
                          !.outcome = MapSet(@, refresher.hash,
                                             IF ok THEN "refreshed" ELSE "failed"),
                          !.at = IF ok THEN "updatelock" ELSE "evictlock"]
    /\ UNCHANGED <<tokenMap, entries, tokenMutex, requests, cacheRest>>

RefEvictLock ==
    /\ refresher.at = "evictlock"
    /\ Lock(Refresher)
    /\ refresher' = [refresher EXCEPT !.at = "evict"]
    /\ UNCHANGED <<tokenMap, entries, requests, cacheRest>>

\* "delete(tokenMap, hash)", Unlock, continue
RefEvict ==
    /\ refresher.at = "evict"
    /\ tokenMap' = MapDelete(tokenMap, refresher.hash)
    /\ Unlock
    /\ refresher' = [refresher EXCEPT !.at = "next"]
    /\ UNCHANGED <<entries, requests, cacheRest>>

RefUpdateLock ==
    /\ refresher.at = "updatelock"
    /\ Lock(Refresher)
    /\ refresher' = [refresher EXCEPT !.at = "update"]
    /\ UNCHANGED <<tokenMap, entries, requests, cacheRest>>

\* "if tokenMap[hash] != nil { tokenMap[hash].AccessToken = newToken }", Unlock
RefUpdate ==
    /\ refresher.at = "update"
    /\ entries' = IF refresher.hash \in DOMAIN tokenMap
                  THEN [entries EXCEPT
                          ![tokenMap[refresher.hash]].AccessToken = IssuedTo(Refresher)]
                  ELSE entries
    /\ Unlock
    /\ refresher' = [refresher EXCEPT !.at = "next"]
    /\ UNCHANGED <<tokenMap, requests, cacheRest>>

NextCache ==
    \/ \E r \in Requests : ReqStart(r)
    \/ \E r \in Requests : ReqRLock(r)
    \/ \E r \in Requests : ReqLookup(r)
    \/ \E r \in Requests : ReqUse(r)
    \/ \E r \in Requests : ReqParse(r)
    \/ \E r \in Requests : ReqExchange(r)
    \/ \E r \in Requests : ReqLock(r)
    \/ \E r \in Requests : ReqInsert(r)
    \/ RefCountLock
    \/ RefCount
    \/ RefSnapLock
    \/ RefSnapshot
    \/ RefNext
    \/ RefDone
    \/ RefRefresh
    \/ RefEvictLock
    \/ RefEvict
    \/ RefUpdateLock
    \/ RefUpdate

SpecCache == InitCache /\ [][NextCache]_vars

(* ------------------------- request transcoder -------------------------- *)

\* longest run of consecutive user messages handed to MergeUserMessages
MaxRun == 3

\* strings.Join(parts, sep)
RECURSIVE Join(_, _)
Join(parts, sep) ==
    IF parts = <<>> THEN <<>>
    ELSE IF Len(parts) = 1 THEN parts[1]
    ELSE parts[1] \o sep \o Join(Tail(parts), sep)

\* the concatenation of a list of lists
RECURSIVE Flatten(_)
Flatten(lists) ==
    IF lists = <<>> THEN <<>> ELSE Head(lists) \o Flatten(Tail(lists))

UserInputMessage(content, context, origin, modelId, images) ==
    [Content |-> content, UserInputMessageContext |-> context,
     Origin |-> origin, ModelID |-> modelId, Images |-> images]

\* the zero value UserInputMessage{}
ZeroUserInputMessage == UserInputMessage(<<>>, "", "", "", <<>>)

\* MergeUserMessages: one message out of a run of user messages
MergeUserMessages(messages) ==
    IF Len(messages) = 0 THEN ZeroUserInputMessage
    ELSE
      LET allContents == SelectSeq([i \in 1..Len(messages) |-> messages[i].Content],
                                   LAMBDA c : c # <<>>)
          allImages == SelectSeq([i \in 1..Len(messages) |-> messages[i].Images],
                                 LAMBDA im : Len(im) > 0)
          startIdx == IF Len(allImages) - 2 < 0 THEN 0 ELSE Len(allImages) - 2
          keptImages == Flatten(Slice(allImages, startIdx, Len(allImages)))
      IN  UserInputMessage(Join(allContents, <<"\n", "\n">>),
                           messages[1].UserInputMessageContext,
                           messages[1].Origin,
                           messages[1].ModelID,
                           keptImages)

\* the user messages a run is drawn from
ImageLists == {<<>>, <<"A">>, <<"B">>, <<"C">>}
UserMessages ==
    {UserInputMessage(c, "ctx", "CLI", m, im) :
        c \in {<<>>, <<"t">>}, m \in {"m1", "m2"}, im \in ImageLists}

Runs == UNION {[1..n -> UserMessages] : n \in 0..MaxRun}

InitMerge ==
    /\ HandlerIdle
    /\ ParserIdle
    /\ PipeIdle
    /\ ServerIdle
    /\ callIn \in {[fn |-> "MergeUserMessages", messages |-> r] : r \in Runs}
    /\ callOut = NoCall

CallMergeUserMessages ==
    /\ callIn.fn = "MergeUserMessages"
    /\ callOut = NoCall
    /\ callOut' = [fn |-> "MergeUserMessages",
                   result |-> MergeUserMessages(callIn.messages)]
    /\ UNCHANGED <<callIn, handlerVars, parserVars, pipeVars,
                   flowVars, cacheVars>>

NextMerge == CallMergeUserMessages

SpecMerge == InitMerge /\ [][NextMerge]_vars

(* AppendThinkingHint *)

\* longest text handed to AppendThinkingHint
MaxText == 3

\* the characters strings.TrimSpace removes (those the texts below use)
WhiteSpace == {" ", "\n", "\r", "\t"}

RECURSIVE TrimLeft(_)
TrimLeft(str) ==
    IF str # <<>> /\ Head(str) \in WhiteSpace THEN TrimLeft(Tail(str)) ELSE str

RECURSIVE TrimRight(_)
TrimRight(str) ==
    IF str # <<>> /\ str[Len(str)] \in WhiteSpace
    THEN TrimRight(SubSeq(str, 1, Len(str) - 1)) ELSE str

\* strings.TrimSpace
TrimSpace(str) == TrimRight(TrimLeft(str))

\* strings.HasSuffix
HasSuffix(str, suffix) ==
    /\ Len(suffix) <= Len(str)
    /\ SubSeq(str, Len(str) - Len(suffix) + 1, Len(str)) = suffix

\* the hint of BuildThinkingHint, "<thinking_mode>...</max_thinking_length>",
\* shortened to its first and last character
ThinkingHint == <<"<", ">">>

\* AppendThinkingHint that looks for the hint without trimming the text
AppendThinkingHintNoTrim(text, hint) ==
    IF HasSuffix(text, hint) THEN text
    ELSE IF text = <<>> THEN hint
    ELSE LET separator == IF ~HasSuffix(text, <<"\n">>) /\ ~HasSuffix(text, <<"\r">>)
                          THEN <<"\n">> ELSE <<>>
         IN text \o separator \o hint

AppendThinkingHint(text, hint) ==
    IF HasSuffix(TrimSpace(text), hint) THEN text
    ELSE IF text = <<>> THEN hint
    ELSE LET separator == IF ~HasSuffix(text, <<"\n">>) /\ ~HasSuffix(text, <<"\r">>)
                          THEN <<"\n">> ELSE <<>>
         IN text \o separator \o hint

TextChars == {"<", ">", "x", " ", "\n", "\r"}
Texts == UNION {[1..n -> TextChars] : n \in 0..MaxText}

InitHint ==
    /\ HandlerIdle
    /\ ParserIdle
    /\ PipeIdle
    /\ ServerIdle
    /\ callIn \in {[fn |-> "AppendThinkingHint", text |-> t, hint |-> ThinkingHint] :
                      t \in Texts}
    /\ callOut = NoCall

CallAppendThinkingHint ==
    /\ callIn.fn = "AppendThinkingHint"
    /\ callOut = NoCall
    /\ callOut' = [fn |-> "AppendThinkingHint",
                   result |-> AppendThinkingHint(callIn.text, callIn.hint)]
    /\ UNCHANGED <<callIn, handlerVars, parserVars, pipeVars,
                   flowVars, cacheVars>>

NextHint == CallAppendThinkingHint

SpecHint == InitHint /\ [][NextHint]_vars

(* ProcessToolResultBlock *)

\* largest number of tool_result blocks in one user turn
MaxBlocks == 3

ToolResult(toolUseId, content, status) ==
    [ToolUseID |-> toolUseId, Content |-> content, Status |-> status]

\* a tool_result block: tool_use_id, content (a string, a list of items or
\* anything else) and an optional status
ToolResultBlock(toolUseId, content, hasStatus, status) ==
    [tool_use_id |-> toolUseId, content |-> content,
     hasStatus |-> hasStatus, status |-> status]

StringContent(text) == [kind |-> "string", text |-> text, items |-> <<>>]
ListContent(items) == [kind |-> "list", text |-> <<>>, items |-> items]
NoContent == [kind |-> "nil", text |-> <<>>, items |-> <<>>]

\* an item of a content list: an object (with its type and, when it has a
\* string under "text", that text), a plain string, or anything else
MapItem(type, hasText, text) ==
    [kind |-> "map", type |-> type, hasText |-> hasText, text |-> text]
StringItem(text) == [kind |-> "string", type |-> "", hasText |-> TRUE, text |-> text]

\* the notice, kept as one unit of text
CancelledText == <<"Tool use was cancelled by the user">>

\* the texts taken from a content list
RECURSIVE ItemTexts(_)
ItemTexts(items) ==
    IF items = <<>> THEN <<>>
    ELSE LET v == Head(items)
             taken == IF v.kind = "map"
                      THEN IF v.type = "text"
                           THEN IF v.hasText THEN <<v.text>> ELSE <<>>
                           ELSE IF v.hasText THEN <<v.text>> ELSE <<>>
                      ELSE IF v.kind = "string" THEN <<v.text>>
                      ELSE <<>>
         IN taken \o ItemTexts(Tail(items))

\* aqContent of one block, the cancelled notice standing for blank content
AqContent(block) ==
    LET aqContent == IF block.content.kind = "string" THEN <<block.content.text>>
                     ELSE IF block.content.kind = "list"
                     THEN ItemTexts(block.content.items)
                     ELSE <<>>
        hasContent == \E i \in 1..Len(aqContent) : TrimSpace(aqContent[i]) # <<>>
    IN IF hasContent THEN aqContent ELSE <<CancelledText>>

\* ProcessToolResultBlock that always adds an entry
ProcessToolResultBlockNoMerge(block, toolResults) ==
    Append(toolResults,
           ToolResult(block.tool_use_id, AqContent(block),
                      IF block.hasStatus THEN block.status ELSE "success"))

ProcessToolResultBlock(block, toolResults) ==
    LET status == IF block.hasStatus THEN block.status ELSE "success"
        same == { i \in 1..Len(toolResults) :
                     toolResults[i].ToolUseID = block.tool_use_id }
    IN IF same # {}
       THEN LET i == CHOOSE i \in same : \A j \in same : i <= j
            IN [toolResults EXCEPT ![i].Content = @ \o AqContent(block)]
       ELSE Append(toolResults, ToolResult(block.tool_use_id, AqContent(block), status))

RawContents ==
    { StringContent(<<"r">>),
      StringContent(<<" ">>),
      ListContent(<< MapItem("text", TRUE, <<"r">>), StringItem(<<"s">>),
                     MapItem("image", FALSE, <<>>) >>),
      NoContent }

ToolResultBlocks ==
    { ToolResultBlock(id, c, hs, "error") :
        id \in {"t1", "t2"}, c \in RawContents, hs \in BOOLEAN }

Turns == UNION {[1..n -> ToolResultBlocks] : n \in 0..MaxBlocks}

\* one user turn: its tool_result blocks are processed in order into an
\* initially empty list
InitToolResults ==
    /\ HandlerIdle
    /\ ParserIdle
    /\ PipeIdle
    /\ ServerIdle
    /\ callIn \in {[fn |-> "ProcessToolResultBlock", blocks |-> t] : t \in Turns}
    /\ callOut = [fn |-> "ProcessToolResultBlock", toolResults |-> <<>>, n |-> 0]

CallProcessToolResultBlock ==
    /\ callIn.fn = "ProcessToolResultBlock"
    /\ callOut.n < Len(callIn.blocks)
    /\ callOut' = [callOut EXCEPT
                     !.toolResults = ProcessToolResultBlock(callIn.blocks[callOut.n + 1], @),
                     !.n = @ + 1]
    /\ UNCHANGED <<callIn, handlerVars, parserVars, pipeVars,
                   flowVars, cacheVars>>

NextToolResults == CallProcessToolResultBlock

SpecToolResults == InitToolResults /\ [][NextToolResults]_vars

(* ProcessHistory *)

\* largest number of history messages of a request
MaxMessages == 4

\* a block of a message content list: text, image (a base64 source, named by
\* its data), tool_result (the block ProcessToolResultBlock takes) or tool_use
ContentBlock(type, text, image, id, result) ==
    [type |-> type, text |-> text, image |-> image, id |-> id, result |-> result]
TextBlock(text) == ContentBlock("text", text, "", "", NoContent)
ImageBlock(image) == ContentBlock("image", <<>>, image, "", NoContent)
ToolResultContentBlock(block) == ContentBlock("tool_result", <<>>, "", "", block)
ToolUseBlock(id) == ContentBlock("tool_use", <<>>, "", id, NoContent)

\* Content of a ClaudeMessage: a string or a list of blocks
ClaudeMessage(role, isList, text, blocks) ==
    [Role |-> role, Content |-> [isList |-> isList, text |-> text, blocks |-> blocks]]

BlocksOfType(content, type) == SelectSeq(content.blocks, LAMBDA b : b.type = type)

ContainsToolContent(content) ==
    /\ content.isList
    /\ \E i \in 1..Len(content.blocks) :
          content.blocks[i].type \in {"tool_result", "tool_use"}

ExtractTextFromContent(content) ==
    IF ~content.isList THEN content.text
    ELSE LET texts == BlocksOfType(content, "text")
         IN Join([i \in 1..Len(texts) |-> texts[i].text], <<"\n">>)

ExtractImagesFromContent(content) ==
    IF ~content.isList THEN <<>>
    ELSE LET images == BlocksOfType(content, "image")
         IN [i \in 1..Len(images) |-> images[i].image]

\* the tool results of a content list, by ProcessToolResultBlock in order
RECURSIVE ToolResultsOf(_, _)
ToolResultsOf(blocks, toolResults) ==
    IF blocks = <<>> THEN toolResults
    ELSE ToolResultsOf(Tail(blocks),
                       IF Head(blocks).type = "tool_result"
                       THEN ProcessToolResultBlock(Head(blocks).result, toolResults)
                       ELSE toolResults)

\* the nil pointer of a HistoryEntry field
NilEntry == [isNil |-> TRUE]
HistoryEntry(userInputMessage, assistantResponseMessage) ==
    [UserInputMessage |-> userInputMessage,
     AssistantResponseMessage |-> assistantResponseMessage]

\* first pass, a user message
ConvertUserMessage(msg, thinkingEnabled, thinkingHint) ==
    LET content == msg.Content
        text == ExtractTextFromContent(content)
        toolResults == IF content.isList THEN ToolResultsOf(content.blocks, <<>>) ELSE <<>>
        textContent == IF thinkingEnabled /\ ~ContainsToolContent(content)
                       THEN AppendThinkingHint(text, thinkingHint)
                       ELSE text
        userCtx == [EnvState |-> [OperatingSystem |-> "macos",
                                  CurrentWorkingDirectory |-> "/"],
                    ToolResults |-> toolResults]
    IN HistoryEntry(UserInputMessage(textContent, userCtx, "CLI", "",
                                     ExtractImagesFromContent(content)),
                    NilEntry)

\* the tool_use ids of a content list not seen before, each once
RECURSIVE NewToolUses(_, _)
NewToolUses(blocks, seen) ==
    IF blocks = <<>> THEN <<>>
    ELSE LET b == Head(blocks)
         IN IF b.type = "tool_use" /\ b.id # "" /\ b.id \notin seen
            THEN <<b.id>> \o NewToolUses(Tail(blocks), seen \cup {b.id})
            ELSE NewToolUses(Tail(blocks), seen)

\* first pass, an assistant message; the fresh MessageID is left out
ConvertAssistantMessage(msg, seen) ==
    HistoryEntry(NilEntry,
                 [Content |-> ExtractTextFromContent(msg.Content),
                  ToolUses |-> IF msg.Content.isList
                               THEN NewToolUses(msg.Content.blocks, seen)
                               ELSE <<>>])

\* first pass: one entry per user or assistant message, others are skipped
RECURSIVE RawHistory(_, _, _, _)
RawHistory(messages, thinkingEnabled, thinkingHint, seen) ==
    IF messages = <<>> THEN <<>>
    ELSE LET msg == Head(messages)
         IN IF msg.Role = "user"
            THEN <<ConvertUserMessage(msg, thinkingEnabled, thinkingHint)>>
                 \o RawHistory(Tail(messages), thinkingEnabled, thinkingHint, seen)
            ELSE IF msg.Role = "assistant"
            THEN LET entry == ConvertAssistantMessage(msg, seen)
                 IN <<entry>> \o
                    RawHistory(Tail(messages), thinkingEnabled, thinkingHint,
                               seen \cup {entry.AssistantResponseMessage.ToolUses[i] :
                                    i \in 1..Len(entry.AssistantResponseMessage.ToolUses)})
            ELSE RawHistory(Tail(messages), thinkingEnabled, thinkingHint, seen)

\* second pass: runs of user entries are merged
RECURSIVE MergeRuns(_, _)
MergeRuns(rawHistory, pendingUserMsgs) ==
    IF rawHistory = <<>>
    THEN IF Len(pendingUserMsgs) > 0
         THEN <<HistoryEntry(MergeUserMessages(pendingUserMsgs), NilEntry)>>
         ELSE <<>>
    ELSE LET item == Head(rawHistory)
         IN IF item.UserInputMessage # NilEntry
            THEN MergeRuns(Tail(rawHistory), Append(pendingUserMsgs, item.UserInputMessage))
            ELSE (IF Len(pendingUserMsgs) > 0
                  THEN <<HistoryEntry(MergeUserMessages(pendingUserMsgs), NilEntry)>>
                  ELSE <<>>)
                 \o <<item>> \o MergeRuns(Tail(rawHistory), <<>>)

ProcessHistory(messages, thinkingEnabled, thinkingHint) ==
    MergeRuns(RawHistory(messages, thinkingEnabled, thinkingHint, {}), <<>>)

\* the messages a history is drawn from
HistoryMessages ==
    { ClaudeMessage("user", FALSE, <<"t">>, <<>>),
      ClaudeMessage("user", TRUE, <<>>, <<TextBlock(<<"t">>), ImageBlock("A")>>),
      ClaudeMessage("user", TRUE, <<>>,
                    <<ToolResultContentBlock(
                        ToolResultBlock("u1", StringContent(<<"r">>), FALSE, ""))>>),
      ClaudeMessage("assistant", FALSE, <<"t">>, <<>>),
      ClaudeMessage("assistant", TRUE, <<>>, <<TextBlock(<<"t">>), ToolUseBlock("u1")>>),
      ClaudeMessage("system", FALSE, <<"t">>, <<>>) }

Histories == UNION {[1..n -> HistoryMessages] : n \in 0..MaxMessages}

InitHistory ==
    /\ HandlerIdle
    /\ ParserIdle
    /\ PipeIdle
    /\ ServerIdle
    /\ callIn \in {[fn |-> "ProcessHistory", messages |-> m, thinkingEnabled |-> e,
                    thinkingHint |-> ThinkingHint] :
                      m \in Histories, e \in BOOLEAN}
    /\ callOut = NoCall

CallProcessHistory ==
    /\ callIn.fn = "ProcessHistory"
    /\ callOut = NoCall
    /\ callOut' = [fn |-> "ProcessHistory",
                   result |-> ProcessHistory(callIn.messages, callIn.thinkingEnabled,
                                             callIn.thinkingHint)]
    /\ UNCHANGED <<callIn, handlerVars, parserVars, pipeVars,
                   flowVars, cacheVars>>

NextHistory == CallProcessHistory

SpecHistory == InitHistory /\ [][NextHistory]_vars

(* ConvertTool and ConvertClaudeToAmazonQRequest *)

\* largest number of tools of a request
MaxTools == 2

\* "len(desc) > 10240" and "desc[:10100]": both count bytes
DescriptionLimit == 10240
TruncatedLength == 10100

\* A tool description is kept by its shape: n copies of one character that
\* takes width bytes in UTF-8, then stray bytes of a character cut short,
\* then the pointer sentence "...(Full description provided in TOOL
\* DOCUMENTATION section)" when pointer is set.
Description(width, n) == [width |-> width, n |-> n, stray |-> 0, pointer |-> FALSE]

\* len(desc)
ByteLen(desc) == desc.n * desc.width

\* desc[:k] followed by the pointer sentence
TruncatedAt(desc, k) ==
    [width |-> desc.width, n |-> k \div desc.width, stray |-> k % desc.width,
     pointer |-> TRUE]

ClaudeTool(name, description) == [Name |-> name, Description |-> description]

\* ConvertTool; the input schema is carried over as it is and left out
ConvertTool(tool) ==
    LET desc == IF ByteLen(tool.Description) > DescriptionLimit
                THEN TruncatedAt(tool.Description, TruncatedLength)
                ELSE tool.Description
    IN [ToolSpecification |-> [Name |-> tool.Name, Description |-> desc]]

\* the entries of longDescTools
LongDescTools(tools) ==
    LET long == SelectSeq(tools, LAMBDA t : ByteLen(t.Description) > DescriptionLimit)
    IN [i \in 1..Len(long) |->
          [name |-> long[i].Name, full_description |-> long[i].Description]]

\* the system prompt text; req.System is nil, a string or a list of blocks
NoSystem == [isNil |-> TRUE]
SystemText(system) ==
    IF system = NoSystem THEN <<>> ELSE ExtractTextFromContent(system)

\* formattedContent, kept by its sections: the SYSTEM PROMPT section (sysText,
\* when hasSystem), the TOOL DOCUMENTATION section (one "Tool: ... Full
\* Description: ..." entry per element of docs, when docs is not empty) and
\* the CONTEXT ENTRY / USER MESSAGE section (around prompt, when hasMessage).
\* The time stamp of the context entry is left out.
FormattedContent(hasSystem, sysText, docs, hasMessage, prompt) ==
    [hasSystem |-> hasSystem, sysText |-> sysText, docs |-> docs,
     hasMessage |-> hasMessage, prompt |-> prompt]

ClaudeRequest(tools, messages, system, thinkingEnabled) ==
    [Tools |-> tools, Messages |-> messages, System |-> system,
     thinkingEnabled |-> thinkingEnabled]

\* ConvertClaudeToAmazonQRequest; the conversation id and the model id are
\* carried over and left out
ConvertClaudeToAmazonQRequest(req) ==
    LET thinkingHint == ThinkingHint
        aqTools == [i \in 1..Len(req.Tools) |-> ConvertTool(req.Tools[i])]
        longDescTools == LongDescTools(req.Tools)
        hasLast == Len(req.Messages) > 0
        lastMsg == req.Messages[Len(req.Messages)]
        isUser == hasLast /\ lastMsg.Role = "user"
        images == IF isUser THEN ExtractImagesFromContent(lastMsg.Content) ELSE <<>>
        toolResults == IF isUser /\ lastMsg.Content.isList
                       THEN ToolResultsOf(lastMsg.Content.blocks, <<>>) ELSE <<>>
        hasToolResult == /\ isUser /\ lastMsg.Content.isList
                         /\ BlocksOfType(lastMsg.Content, "tool_result") # <<>>
        text == IF isUser THEN ExtractTextFromContent(lastMsg.Content) ELSE <<>>
        promptContent == IF /\ req.thinkingEnabled /\ hasLast
                            /\ ~ContainsToolContent(lastMsg.Content)
                         THEN AppendThinkingHint(text, thinkingHint)
                         ELSE text
        hasMessage == ~(hasToolResult /\ promptContent = <<>>)
        notEmpty == hasMessage \/ Len(longDescTools) > 0
        sysText == SystemText(req.System)
        hasSystem == req.System # NoSystem /\ notEmpty /\ sysText # <<>>
        userCtx == [EnvState |-> [OperatingSystem |-> "macos",
                                  CurrentWorkingDirectory |-> "/"],
                    Tools |-> aqTools, ToolResults |-> toolResults]
        historyMsgs == IF Len(req.Messages) > 1
                       THEN SubSeq(req.Messages, 1, Len(req.Messages) - 1) ELSE <<>>
    IN [History |-> ProcessHistory(historyMsgs, req.thinkingEnabled, thinkingHint),
        CurrentMessage |->
            [Content |-> FormattedContent(hasSystem, IF hasSystem THEN sysText ELSE <<>>,
                                          longDescTools, hasMessage,
                                          IF hasMessage THEN promptContent ELSE <<>>),
             UserInputMessageContext |-> userCtx,
             Origin |-> "CLI",
             Images |-> images],
        ChatTriggerType |-> "MANUAL"]

\* descriptions around the limit, of one-byte and of three-byte characters
Descriptions ==
    { Description(1, 0), Description(1, 10240), Description(1, 10241),
      Description(1, 10300), Description(3, 3413), Description(3, 3414),
      Description(3, 10300) }

ClaudeTools == { ClaudeTool(name, d) : name \in {"f", "g"}, d \in Descriptions }
ToolLists == UNION {[1..n -> ClaudeTools] : n \in 0..MaxTools}

RequestMessages ==
    { <<>>,
      <<ClaudeMessage("user", FALSE, <<"t">>, <<>>)>>,
      <<ClaudeMessage("assistant", FALSE, <<"t">>, <<>>),
        ClaudeMessage("user", TRUE, <<>>,
                      <<ToolResultContentBlock(
                          ToolResultBlock("u1", StringContent(<<"r">>), FALSE, ""))>>)>> }

Systems == {NoSystem, [isList |-> FALSE, text |-> <<"s">>, blocks |-> <<>>]}

InitRequest ==
    /\ HandlerIdle
    /\ ParserIdle
    /\ PipeIdle
    /\ ServerIdle
    /\ callIn \in {[fn |-> "ConvertClaudeToAmazonQRequest",
                    req |-> ClaudeRequest(t, m, sy, e)] :
                      t \in ToolLists, m \in RequestMessages, sy \in Systems,
                      e \in BOOLEAN}
    /\ callOut = NoCall

CallConvertClaudeToAmazonQRequest ==
    /\ callIn.fn = "ConvertClaudeToAmazonQRequest"
    /\ callOut = NoCall
    /\ callOut' = [fn |-> "ConvertClaudeToAmazonQRequest",
                   result |-> ConvertClaudeToAmazonQRequest(callIn.req)]
    /\ UNCHANGED <<callIn, handlerVars, parserVars, pipeVars,
                   flowVars, cacheVars>>

NextRequest == CallConvertClaudeToAmazonQRequest

SpecRequest == InitRequest /\ [][NextRequest]_vars

(* FormatSSE *)

\* JSON text is kept as its sequence of tokens: braces, commas, colons, keys
\* and values.  json.Marshal writes the keys of a map in sorted order.
SortedKeys == <<"delta", "index", "type", "usage">>

\* json.Marshal of a map (a function from some of the keys to values)
Marshal(dataMap) ==
    LET keys == SelectSeq(SortedKeys, LAMBDA k : k \in DOMAIN dataMap)
        members == [i \in 1..Len(keys) |->
                      (IF i > 1 THEN <<",">> ELSE <<>>)
                      \o <<keys[i], ":", dataMap[keys[i]]>>]
    IN <<"{">> \o Flatten(members) \o <<"}">>

\* data of FormatSSE: a map, or a value that is not a map and marshals to
\* the one token raw
MapData(dataMap) == [isMap |-> TRUE, map |-> dataMap, raw |-> ""]
OtherData(raw) == [isMap |-> FALSE, map |-> <<>>, raw |-> raw]

\* fmt.Sprintf("event: %s\ndata: %s\n\n", eventType, jsonData)
SSEText(eventType, jsonData) ==
    <<"event: ", eventType, "\n", "data: ">> \o jsonData \o <<"\n", "\n">>

\* delete(dataMap, "type")
WithoutType(dataMap) == [k \in DOMAIN dataMap \ {"type"} |-> dataMap[k]]

\* FormatSSE that marshals every payload as it is
FormatSSEAsIs(eventType, data) ==
    IF ~data.isMap THEN SSEText(eventType, <<data.raw>>)
    ELSE SSEText(eventType, Marshal(data.map))

FormatSSE(eventType, data) ==
    IF ~data.isMap THEN SSEText(eventType, <<data.raw>>)
    ELSE IF "type" \notin DOMAIN data.map THEN SSEText(eventType, Marshal(data.map))
    ELSE LET typeJSON == data.map["type"]
             restJSON == Marshal(WithoutType(data.map))
             jsonData == IF Len(restJSON) > 2
                         THEN <<"{", "type", ":", typeJSON, ",">>
                              \o SubSeq(restJSON, 2, Len(restJSON))
                         ELSE <<"{", "type", ":", typeJSON, "}">>
         IN SSEText(eventType, jsonData)

JSONValues == {"\"a\"", "1"}
DataMaps ==
    UNION { [ks -> JSONValues] : ks \in SUBSET {"delta", "index", "type", "usage"} }
SSEData == { MapData(m) : m \in DataMaps } \cup { OtherData("null"), OtherData("\"a\"") }

InitSSE ==
    /\ HandlerIdle
    /\ ParserIdle
    /\ PipeIdle
    /\ ServerIdle
    /\ callIn \in {[fn |-> "FormatSSE", eventType |-> e, data |-> d] :
                      e \in {"ping", "message_stop"}, d \in SSEData}
    /\ callOut = NoCall

CallFormatSSE ==
    /\ callIn.fn = "FormatSSE"
    /\ callOut = NoCall
    /\ callOut' = [fn |-> "FormatSSE",
                   result |-> FormatSSE(callIn.eventType, callIn.data)]
    /\ UNCHANGED <<callIn, handlerVars, parserVars, pipeVars,
                   flowVars, cacheVars>>

NextSSE == CallFormatSSE

SpecSSE == InitSSE /\ [][NextSSE]_vars

(* ============================== properties ============================= *)
Positions(type) == { i \in 1..Len(out) : out[i].type = type }
Starts == Positions("content_block_start")
Stops == Positions("content_block_stop")

IsInitialResponse(e) == e.eventType = "initial-response" /\ e.payload.isMap
IsText(e) == e.eventType = "assistantResponseEvent" /\ e.payload.isMap

\* C1: once Finish has run, as many content_block_start events as
\* content_block_stop events have been emitted.
StartsEqualStopsAfterFinish ==
    pc = "finished" => Cardinality(Starts) = Cardinality(Stops)

\* C2: at most one content block is open: when a content_block_start is
\* emitted, every block started earlier has received its content_block_stop.
AtMostOneBlockOpen ==
    \A i \in Starts : \A j \in Starts :
        j < i => \E k \in (j + 1)..(i - 1) :
                    /\ out[k].type = "content_block_stop"
                    /\ out[k].index = out[j].index

\* C3: the k-th content_block_start (k from 0) carries index k.
BlockIndexIsStartCount ==
    \A i \in Starts : out[i].index = Cardinality({ j \in Starts : j < i })

BlockIndexWitness ==
    /\ \E i \in Starts : out[i].index = 2
    /\ { out[i].kind : i \in Starts } = {"text", "thinking", "tool_use"}

\* C4: a start tag split across fragments is detected as one marker (one
\* thinking block, no text delta), and the blocks emitted for a run of text
\* fragments (type, concatenated delta text) are those emitted for the
\* concatenation of the fragments handled as one fragment.
RECURSIVE FedText(_)
FedText(l) ==
    IF l = <<>> THEN <<>>
    ELSE (IF IsText(Head(l)) THEN Head(l).payload.content ELSE <<>>) \o FedText(Tail(l))

RECURSIVE DeltaText(_, _)
DeltaText(evs, idx) ==
    IF evs = <<>> THEN <<>>
    ELSE (IF Head(evs).type = "content_block_delta" /\ Head(evs).index = idx
          THEN Head(evs).text ELSE <<>>) \o DeltaText(Tail(evs), idx)

Blocks(evs) ==
    LET st == SelectSeq(evs, LAMBDA e : e.type = "content_block_start")
    IN [k \in 1..Len(st) |-> [kind |-> st[k].kind, text |-> DeltaText(evs, st[k].index)]]

TextOnly == \A i \in 1..Len(log) : IsText(log[i])

SplitTagIsOneMarker ==
    TextOnly =>
        /\ FedText(log) = ThinkingStartTag =>
              /\ Cardinality({ i \in Starts : out[i].kind = "thinking" }) = 1
              /\ \A i \in 1..Len(out) : out[i].kind # "text_delta"
        /\ Blocks(out) =
              Blocks(HandleEvent(NewClaudeStreamHandler, "assistantResponseEvent",
                                 [EmptyObject EXCEPT !.content = FedText(log)]).events)

\* C5: message_stop is emitted exactly once, by Finish, as the last event,
\* right after message_delta, and every started block has been stopped
\* before it.
MessageStopClosesAll ==
    /\ pc = "running" => Positions("message_stop") = {}
    /\ pc = "finished" =>
          /\ Cardinality(Positions("message_stop")) = 1
          /\ Len(out) >= 2
          /\ out[Len(out)].type = "message_stop"
          /\ out[Len(out) - 1].type = "message_delta"
          /\ \A i \in Starts : \E k \in (i + 1)..Len(out) :
                /\ out[k].type = "content_block_stop"
                /\ out[k].index = out[i].index

\* C6: message_start is emitted at most once; an initial-response event
\* after the first one emits nothing.
MessageStartAtMostOnce ==
    /\ Cardinality(Positions("message_start")) <= 1
    /\ \A i \in 1..Len(log) :
          (IsInitialResponse(log[i]) /\ \E j \in 1..(i - 1) : IsInitialResponse(log[j]))
              => log[i].emitted = 0

MessageStartWitness ==
    /\ \E i \in 1..Len(log) : \E j \in 1..(i - 1) :
          IsInitialResponse(log[i]) /\ IsInitialResponse(log[j])
    /\ Cardinality(Positions("message_start")) = 1

\* C7: every content_block_start is preceded by a message_start.
MessageStartBeforeBlocks ==
    \A i \in Starts : \E j \in 1..(i - 1) : out[j].type = "message_start"

\* C8: when a block has been opened, exactly one ping has been emitted, right
\* after the first content_block_start.
PingAfterFirstBlockStart ==
    Starts # {} =>
        /\ Cardinality(Positions("ping")) = 1
        /\ \A i \in Starts :
              (\A j \in Starts : i <= j) => (i + 1) \in Positions("ping")

\* C9: a tool-use id opens at most one content block.
ToolUseIdOpensOneBlock ==
    \A i \in Starts : \A j \in Starts :
        (i < j /\ out[i].kind = "tool_use" /\ out[j].kind = "tool_use")
            => out[i].id # out[j].id

\* C10: a frame with inconsistent offsets is skipped: ParseStream does not
\* crash on it, and when it returns at end-of-stream every well-formed frame
\* of the stream has been delivered, in order.
WellFormedMessages ==
    LET wf == SelectSeq(frames, LAMBDA f : f \in WellFormedKinds)
    IN [k \in 1..Len(wf) |-> ParseMessage(FrameBytes(wf[k])).msg]

InconsistentFrameIsSkipped ==
    /\ ppc.at # "panic"
    /\ ppc.at = "done" => eventChan = WellFormedMessages

\* C11: ParseStream terminates on every finite byte source: it returns (at
\* end-of-stream, or with the read error) and the frame queue is closed.
ParseStreamTerminates == <>(ppc.at \in {"done", "failed"} /\ chanClosed)

\* C12: for a stream of well-formed frames the frames delivered do not depend
\* on how the stream is split into reads: what has been delivered is always a
\* prefix of the stream's frames, an incomplete frame stays in the buffer, and
\* at end-of-stream every frame has been delivered.
IsPrefix(a, b) == Len(a) <= Len(b) /\ a = SubSeq(b, 1, Len(a))

AllWellFormed == \A i \in 1..Len(frames) : frames[i] \in WellFormedKinds

SplitReadsDeliverSameFrames ==
    AllWellFormed =>
        /\ ppc.at # "panic"
        /\ IsPrefix(eventChan, WellFormedMessages)
        /\ Len(eventChan) < Len(WellFormedMessages) =>
              buffer \o reader =
                  Concat(SubSeq(frames, Len(eventChan) + 1, Len(frames)))
        /\ ppc.at = "done" => eventChan = WellFormedMessages

\* a read has ended inside the prelude of the second frame, after the first
\* frame was delivered
SplitReadsWitness ==
    /\ AllWellFormed
    /\ Len(frames) = 2
    /\ ppc.at = "read"
    /\ Len(eventChan) = 1
    /\ Len(buffer) > 0 /\ Len(buffer) < 12

\* output_tokens of the message_delta that Finish emitted
ReportedOutputTokens == out[Len(out) - 1].usage
\* the length Finish divides: response text plus stopped tools' input
TotalLength == Len(h.ResponseBuffer) + Len(h.AllToolInputs)

\* C16 (as claimed): Finish reports max(1, ceil(L / 4)).
OutputTokensRoundUp ==
    pc = "finished" =>
        ReportedOutputTokens =
            (IF TotalLength = 0 THEN 1 ELSE (TotalLength + 3) \div 4)

\* C16 (amended): Finish reports max(1, floor(L / 4)): the largest n with
\* 4 * n <= L, and 1 when L < 4.
OutputTokensRoundDown ==
    pc = "finished" =>
        /\ TotalLength < 4 => ReportedOutputTokens = 1
        /\ TotalLength >= 4 =>
              /\ 4 * ReportedOutputTokens <= TotalLength
              /\ TotalLength < 4 * ReportedOutputTokens + 4

OutputTokensWitness ==
    pc = "finished" /\ TotalLength = 5 /\ ReportedOutputTokens = 1

\* C17: Finish on a handler that emitted no text and no tool input reports
\* an output-token count of exactly 1.
NoOutputReportsOneToken ==
    (pc = "finished" /\ Positions("content_block_delta") = {})
        => ReportedOutputTokens = 1

NoOutputWitness ==
    /\ pc = "finished"
    /\ Positions("content_block_delta") = {}
    /\ Starts # {}

\* C18: when content_block_stop reaches a tool_use block whose accumulated
\* partial_json does not parse as a JSON object, the block keeps that text
\* unchanged and the aggregation goes on.
OutStrings == AsStrings(out)

UnparsableInputIsKept ==
    \A k \in 1..Len(OutStrings) :
        LET ev == OutStrings[k][1]
            before == Aggregate(SubSeq(OutStrings, 1, k - 1))
            after == Aggregate(SubSeq(OutStrings, 1, k))
        IN (/\ ev.type = "content_block_stop"
            /\ before.status = "ok"
            /\ ev.index >= 0 /\ ev.index < Len(before.finalContent)
            /\ before.finalContent[ev.index + 1].type = "tool_use"
            /\ before.finalContent[ev.index + 1].hasPartial
            /\ ~ParsesAsJSONObject(before.finalContent[ev.index + 1].partial))
           => /\ after.status = "ok"
              /\ after.finalContent[ev.index + 1].hasPartial
              /\ after.finalContent[ev.index + 1].partial =
                    before.finalContent[ev.index + 1].partial

\* C19: the upstream sequence initial-response, text fragments without a
\* thinking tag, assistantResponseEnd aggregates to one text block holding
\* the concatenation of the fragments, with stop_reason end_turn.
NoTag(text) == Index(text, ThinkingStartTag) = -1 /\ Index(text, ThinkingEndTag) = -1

IsTextRun ==
    /\ pc = "finished"
    /\ Len(log) >= 3
    /\ IsInitialResponse(log[1])
    /\ log[Len(log)].eventType = "assistantResponseEnd" /\ log[Len(log)].payload.isMap
    /\ \A i \in 2..(Len(log) - 1) : IsText(log[i]) /\ NoTag(log[i].payload.content)

OneTextBlock(text) == << Block("text", TRUE, text, "", <<>>, FALSE, <<>>) >>

\* as claimed: for every such run
TextRunAggregates ==
    IsTextRun =>
        /\ Aggregate(OutStrings).status = "ok"
        /\ Response(Aggregate(OutStrings)).content = OneTextBlock(FedText(log))
        /\ Response(Aggregate(OutStrings)).stop_reason = "end_turn"

\* amended: when some fragment is not empty; a run of empty fragments gives
\* an empty content list
TextRunAggregatesNonEmpty ==
    IsTextRun =>
        /\ Aggregate(OutStrings).status = "ok"
        /\ Response(Aggregate(OutStrings)).stop_reason = "end_turn"
        /\ Response(Aggregate(OutStrings)).content =
              (IF FedText(log) = <<>> THEN <<>> ELSE OneTextBlock(FedText(log)))

TextRunWitness ==
    /\ IsTextRun
    /\ Len(log) = 4
    /\ log[2].payload.content # <<>> /\ log[3].payload.content # <<>>
    /\ Len(Response(Aggregate(OutStrings)).content) = 1


\* C20: the merged entry carries exactly the images of the last two entries of
\* the run, in order, whether or not those two entries carry images
LastTwoImages(messages) ==
    LET n == Len(messages)
    IN  Flatten([i \in 1..Min(n, 2) |-> messages[n - Min(n, 2) + i].Images])
MergeKeepsLastTwoEntries ==
    callOut.fn = "MergeUserMessages" =>
        callOut.result.Images = LastTwoImages(callIn.messages)

\* the event strings a body yields: HandleEvent's output for each frame in
\* arrival order, then Finish's output
RECURSIVE StringsFrom(_, _)
StringsFrom(hh, msgs) ==
    IF msgs = <<>> THEN AsStrings(Finish(hh).events)
    ELSE LET r == IF Head(msgs).EventType # ""
                  THEN HandleEvent(hh, Head(msgs).EventType, Head(msgs).Payload)
                  ELSE R(hh, <<>>)
         IN AsStrings(r.events) \o StringsFrom(r.h, Tail(msgs))

ExpectedStrings == StringsFrom(NewClaudeStreamHandler, script)

\* C15: what the delivery stage has received is always the beginning of the
\* expected event strings, and is all of them once it has read the closed
\* queue to its end: nothing is reordered, lost or duplicated on the way
DeliveryIsInOrder ==
    /\ IsPrefix(received, ExpectedStrings)
    /\ delivery.at = "done" => received = ExpectedStrings

DeliveryWitness ==
    /\ delivery.at = "done"
    /\ Len(script) = MaxUpstream
    /\ Len(received) > 2 * QueueCap
    /\ \E i \in 1..Len(script) : script[i].EventType = "toolUseEvent"

\* C14: neither queue ever holds more than its capacity; a producer facing a
\* full queue has no step, so once the delivery stage has stopped and both
\* queues are full with both producers waiting to send, nothing more is read
QueuesAreBounded ==
    /\ Len(eventChan) <= QueueCap
    /\ Len(sseChan) <= QueueCap
    /\ Len(eventChan) = QueueCap => ~ENABLED DecodeSend
    /\ Len(sseChan) = QueueCap => ~ENABLED TranscodeSend
    /\ (/\ delivery.at = "stopped"
        /\ Len(sseChan) = QueueCap /\ transcoder.at \in {"send", "sendFinal"}
        /\ Len(eventChan) = QueueCap /\ decoder.at = "send")
       => ~ENABLED DecodeStep

BackpressureWitness ==
    /\ delivery.at = "stopped"
    /\ Len(sseChan) = QueueCap /\ transcoder.at = "send"
    /\ Len(eventChan) = QueueCap /\ decoder.at = "send"

\* C13: once the client is gone, the decode task and the transcode task both
\* eventually terminate
DisconnectEndsTasks ==
    delivery.clientGone ~> (decoder.at = "done" /\ transcoder.at = "done")


\* the blocks open after the first n emitted events: the positions of the
\* content_block_start events not yet followed by a stop with their index
OpenAfter(n) ==
    { i \in Starts : /\ i <= n
                     /\ ~\E k \in (i + 1)..n : /\ out[k].type = "content_block_stop"
                                               /\ out[k].index = out[i].index }

\* number of events emitted by the first k handled upstream events
RECURSIVE EmittedBy(_)
EmittedBy(k) == IF k = 0 THEN 0 ELSE EmittedBy(k - 1) + log[k].emitted

\* C29: every content_block_delta carries the index of a block that is open
\* when it is emitted
DeltaGoesToOpenBlock ==
    \A k \in Positions("content_block_delta") :
        \E i \in OpenAfter(k - 1) : out[i].index = out[k].index

\* C30: after an assistantResponseEnd has been handled no block is open, and
\* if one was open exactly one content_block_stop, with its index, was emitted
EndClosesOpenBlock ==
    \A k \in 1..Len(log) :
        (log[k].eventType = "assistantResponseEnd" /\ log[k].payload.isMap) =>
            LET before == EmittedBy(k - 1)
                after == EmittedBy(k)
            IN /\ OpenAfter(after) = {}
               /\ \A i \in OpenAfter(before) :
                     /\ after = before + 1
                     /\ out[after].type = "content_block_stop"
                     /\ out[after].index = out[i].index


\* the newline AppendThinkingHint puts between a text and the hint
HintSeparator(text) ==
    IF text[Len(text)] \in {"\n", "\r"} THEN <<>> ELSE <<"\n">>

\* C23 as stated: appending the hint again changes nothing; an empty text
\* gives the hint; every other text gives the text, one newline unless the
\* text ends in a line break, and the hint
HintSeparatedByNewline ==
    callOut.fn = "AppendThinkingHint" =>
        /\ AppendThinkingHint(callOut.result, callIn.hint) = callOut.result
        /\ callIn.text = <<>> => callOut.result = callIn.hint
        /\ callIn.text # <<>> =>
              callOut.result = callIn.text \o HintSeparator(callIn.text) \o callIn.hint

\* C23: appending the hint again changes nothing; an empty text gives the
\* hint; a text that ends with the hint once its surrounding whitespace is
\* trimmed is returned as it is; every other text gives the text, one newline
\* unless the text ends in a line break, and the hint
HintAppendedOnce ==
    callOut.fn = "AppendThinkingHint" =>
        /\ AppendThinkingHint(callOut.result, callIn.hint) = callOut.result
        /\ callIn.text = <<>> => callOut.result = callIn.hint
        /\ (callIn.text # <<>> /\ HasSuffix(TrimSpace(callIn.text), callIn.hint)) =>
              callOut.result = callIn.text
        /\ (callIn.text # <<>> /\ ~HasSuffix(TrimSpace(callIn.text), callIn.hint)) =>
              callOut.result = callIn.text \o HintSeparator(callIn.text) \o callIn.hint

HintWitness ==
    /\ callOut.fn = "AppendThinkingHint"
    /\ callIn.text = <<"<", ">", " ">>
    /\ callOut.result = callIn.text


\* the tool-use ids of the first n blocks, each once, in order of first
\* occurrence
RECURSIVE FirstOccurrences(_, _)
FirstOccurrences(blocks, n) ==
    IF n = 0 THEN <<>>
    ELSE LET before == FirstOccurrences(blocks, n - 1)
         IN IF \E i \in 1..Len(before) : before[i] = blocks[n].tool_use_id
            THEN before
            ELSE Append(before, blocks[n].tool_use_id)

\* the contents, in block order, of the blocks among the first n with this id
ContentsOf(blocks, n, id) ==
    Flatten([k \in 1..Len(SelectSeq(SubSeq(blocks, 1, n),
                                    LAMBDA b : b.tool_use_id = id)) |->
               AqContent(SelectSeq(SubSeq(blocks, 1, n),
                                   LAMBDA b : b.tool_use_id = id)[k])])

\* C24: after the blocks of a turn are processed in order the list has one
\* entry per distinct tool-use id, in order of first occurrence, and the
\* entry's content is the concatenation of the contents of the blocks with
\* that id
ToolResultsMergedById ==
    callOut.fn = "ProcessToolResultBlock" =>
        LET ids == FirstOccurrences(callIn.blocks, callOut.n)
        IN /\ Len(callOut.toolResults) = Len(ids)
           /\ \A i \in 1..Len(ids) :
                 /\ callOut.toolResults[i].ToolUseID = ids[i]
                 /\ callOut.toolResults[i].Content =
                       ContentsOf(callIn.blocks, callOut.n, ids[i])
           /\ \A i \in 1..Len(ids) : \A j \in 1..Len(ids) :
                 i # j => callOut.toolResults[i].ToolUseID #
                          callOut.toolResults[j].ToolUseID

ToolResultsWitness ==
    /\ callOut.fn = "ProcessToolResultBlock"
    /\ callOut.n = 3
    /\ Len(callOut.toolResults) = 2
    /\ callOut.toolResults[1].ToolUseID = "t1"
    /\ callOut.toolResults[1].Content = <<<<"r">>, <<"r">>, <<"s">>>>
    /\ callIn.blocks[2].tool_use_id = "t2"


\* C21: in the produced history no two adjacent entries are both user entries
\* and no two adjacent entries are both assistant entries
HistoryAlternates ==
    callOut.fn = "ProcessHistory" =>
        \A i \in 1..(Len(callOut.result) - 1) :
            (callOut.result[i].UserInputMessage = NilEntry)
                # (callOut.result[i + 1].UserInputMessage = NilEntry)


\* the first k characters of a description followed by the pointer sentence
FirstCharacters(desc, k) ==
    [width |-> desc.width, n |-> k, stray |-> 0, pointer |-> TRUE]

\* C22: a description of more than 10,240 characters is replaced by its first
\* 10,100 characters and the pointer sentence, and the full description is
\* listed under the tool's name in the TOOL DOCUMENTATION section of the
\* current message; any other description is passed through and not listed
LongDescriptionsAreDocumented ==
    callOut.fn = "ConvertClaudeToAmazonQRequest" =>
        LET tools == callIn.req.Tools
            converted == callOut.result.CurrentMessage.UserInputMessageContext.Tools
            long == SelectSeq(tools, LAMBDA t : t.Description.n > DescriptionLimit)
        IN /\ Len(converted) = Len(tools)
           /\ \A i \in 1..Len(tools) :
                 converted[i].ToolSpecification.Description =
                    IF tools[i].Description.n > DescriptionLimit
                    THEN FirstCharacters(tools[i].Description, TruncatedLength)
                    ELSE tools[i].Description
           /\ callOut.result.CurrentMessage.Content.docs =
                 [i \in 1..Len(long) |->
                    [name |-> long[i].Name, full_description |-> long[i].Description]]


\* the JSON text of an SSE string: what stands between "data: " and the two
\* closing line feeds
DataOf(sse) == SubSeq(sse, 5, Len(sse) - 2)

\* the key/value members a JSON object text carries
MembersOf(json) ==
    { <<json[i - 1], json[i + 1]>> : i \in { j \in 2..(Len(json) - 1) : json[j] = ":" } }

UpstreamErrorIsGatewayError ==
    (upstream.attempts > 0 /\ upstream.answer.status >= 400) =>
        /\ response.status = 502
        /\ response.body[Len(response.body)] = upstream.answer.body
        /\ decoder.at = "idle" /\ transcoder.at = "idle" /\ delivery.at = "idle"
        /\ upstream.attempts = 1
        /\ eventChan = <<>> /\ sseChan = <<>> /\ received = <<>> /\ out = <<>>

UpstreamErrorWitness ==
    /\ upstream.attempts = 1
    /\ upstream.answer = Answer(400, "boom")
    /\ response.status = 502


\* the entries the cache holds
Cached == { tokenMap[k] : k \in DOMAIN tokenMap }

\* C26: when a refresh cycle is complete, every entry of its snapshot whose
\* refresh failed is out of the cache, and every entry whose refresh succeeded
\* is still in the cache, under its hash, with the new access token
RefreshCycleOutcome ==
    refresher.at = "done" =>
        \A hash \in DOMAIN refresher.tokens :
            /\ refresher.outcome[hash] = "failed" =>
                  refresher.tokens[hash] \notin Cached
            /\ refresher.outcome[hash] = "refreshed" =>
                  /\ hash \in DOMAIN tokenMap
                  /\ entries[tokenMap[hash]].AccessToken = IssuedTo(Refresher)

\* C27: every access to the cache map or to the fields of a cached entry is
\* made with the lock held, and no request reads an entry's access token
\* while the refresher is writing it
LockGuardsCache ==
    /\ \A r \in DOMAIN requests :
          /\ requests[r].at = "use" => Request(r) \in tokenMutex.readers
          /\ requests[r].at = "use" => ~BeingWritten(requests[r].cached)
    /\ refresher.at = "refresh" => Refresher \in tokenMutex.readers


\* the events appended to out by the step, and the toolUseEvent it handled
Emitted == SubSeq(out', Len(out) + 1, Len(out'))
HandlesToolUse(p) ==
    /\ pc = "running"
    /\ log' = Append(log, [eventType |-> "toolUseEvent", payload |-> p,
                           emitted |-> Len(out') - Len(out)])
\* a toolUseEvent that carries an id, a name, an input fragment and stop
IsWholeToolCall(p) ==
    p.isMap /\ p.toolUseId # "" /\ p.name # "" /\ p.hasInput /\ p.stop

\* C31: a toolUseEvent with a new id and name, an input fragment and stop,
\* handled while no tool block is open, emits the stop of the block that was
\* open (if one was), a tool_use start with a fresh index, the ping if it is
\* armed, one input_json_delta and the stop, all with the new index;
\* afterwards no tool block is open and the input has been recorded
WholeToolCallInOneEvent ==
    [][\A p \in ToolPayloads :
          (IsWholeToolCall(p) /\ HandlesToolUse(p) /\ h.CurrentToolUse = "") =>
              \E idx \in 0..Len(out) :
                  /\ \A i \in Starts : out[i].index # idx
                  /\ \E closes \in IF OpenAfter(Len(out)) = {} THEN {<<>>}
                                   ELSE { <<BuildContentBlockStop(out[i].index)>> :
                                            i \in OpenAfter(Len(out)) } :
                        Emitted = closes
                                  \o <<BuildToolUseStart(idx, p.toolUseId, p.name)>>
                                  \o (IF h.PingPending THEN <<BuildPing>> ELSE <<>>)
                                  \o <<BuildToolUseInputDelta(idx, p.input),
                                       BuildContentBlockStop(idx)>>
                  /\ h'.CurrentToolUse = ""
                  /\ h'.AllToolInputs = h.AllToolInputs \o p.input]_vars


\* total length of the text and partial_json carried by emitted deltas
RECURSIVE DeltaLength(_)
DeltaLength(evs) ==
    IF evs = <<>> THEN 0
    ELSE (IF Head(evs).type = "content_block_delta" THEN Len(Head(evs).text) ELSE 0)
         + DeltaLength(Tail(evs))

\* C32: the length Finish uses for the usage estimate is the total length of
\* the text of every emitted text_delta and of the fragment of every emitted
\* input_json_delta, thinking deltas and unstopped tool blocks included
UsageCountsEveryDelta ==
    pc = "finished" => TotalLength = DeltaLength(out)


\* C33: every content_block_stop carries the index of a block that is open
\* when it is emitted, so no index is stopped twice
StopGoesToOpenBlock ==
    \A k \in Stops : \E i \in OpenAfter(k - 1) : out[i].index = out[k].index


\* C34: every content_block_delta and content_block_stop carries an index
\* that is not negative and is the index of a content_block_start emitted
\* before it, so the aggregator of the non-streaming response never indexes
\* its block list out of range
IndexWasStarted ==
    /\ \A k \in 1..Len(out) :
          out[k].type \in {"content_block_delta", "content_block_stop"} =>
              /\ out[k].index >= 0
              /\ \E i \in 1..(k - 1) : /\ out[i].type = "content_block_start"
                                        /\ out[i].index = out[k].index
    /\ pc = "finished" => Aggregate(OutStrings).status = "ok"

\* a thinking delta emitted after a tool block was opened inside the thinking
\* span, and a stop emitted twice for one index
IndexWasStartedWitness ==
    /\ pc = "finished"
    /\ \E k \in Positions("content_block_delta") : \E i \in Starts :
          /\ i < k
          /\ out[i].index = out[k].index
          /\ out[i].kind = "tool_use"
          /\ out[k].kind = "text_delta"
    /\ \E k \in Stops : \E j \in Stops : j < k /\ out[j].index = out[k].index


\* C35: HandleEvent on a payload that is no JSON object emits nothing and
\* leaves the handler as it is, whatever the event type and whatever the
\* handler's state; the events handled with such a payload emitted nothing
NonObjectPayloadIsIgnored ==
    /\ \A t \in EventTypes : HandleEvent(h, t, NonObject) = R(h, <<>>)
    /\ \A k \in 1..Len(log) : ~log[k].payload.isMap => log[k].emitted = 0

\* an initial-response without an object came first and sent no
\* message_start, and an assistantResponseEnd without an object came last
\* and left the open block open
NonObjectPayloadWitness ==
    /\ Len(log) >= 3
    /\ log[1].eventType = "initial-response" /\ ~log[1].payload.isMap
    /\ log[Len(log)].eventType = "assistantResponseEnd" /\ ~log[Len(log)].payload.isMap
    /\ ~h.MessageStartSent /\ ~h.PingPending
    /\ Positions("message_start") = {}
    /\ h.ContentBlockStarted /\ ~h.ContentBlockStopSent
    /\ OpenAfter(Len(out)) # {}
    /\ pc = "running"


\* the tool_use blocks open before the step: positions of their starts
OpenTools == { i \in OpenAfter(Len(out)) : out[i].kind = "tool_use" }

\* C36: while a tool_use block is open, a toolUseEvent with another
\* toolUseId (or none) starts no block: its input fragment, if any, is
\* emitted as input_json_delta with the open block's index and appended to
\* the open block's input, and its stop flag, if set, closes the open block
OtherIdFeedsOpenTool ==
    [][\A p \in ToolPayloads : \A i \in OpenTools :
          (HandlesToolUse(p) /\ p.toolUseId # out[i].id) =>
              LET idx == out[i].index
                  input == IF p.hasInput THEN p.input ELSE <<>>
              IN /\ Emitted =
                       (IF p.hasInput THEN <<BuildToolUseInputDelta(idx, p.input)>>
                        ELSE <<>>)
                       \o (IF p.stop THEN <<BuildContentBlockStop(idx)>> ELSE <<>>)
                 /\ p.stop =>
                       /\ h'.CurrentToolUse = ""
                       /\ h'.AllToolInputs =
                             h.AllToolInputs \o h.ToolInputBuffer \o input
                 /\ ~p.stop =>
                       /\ h'.CurrentToolUse = out[i].id
                       /\ h'.ToolInputBuffer = h.ToolInputBuffer \o input]_vars

\* tool t1 was opened and given input; the event of tool t2 added its input
\* to t1's block and closed it, and no block was started for t2
OtherIdWitness ==
    /\ Len(log) >= 2
    /\ log[Len(log)].eventType = "toolUseEvent"
    /\ log[Len(log)].payload.toolUseId = "t2"
    /\ log[Len(log)].emitted = 2
    /\ \A i \in Starts : out[i].id # "t2"
    /\ \E i \in Starts : out[i].id = "t1" /\ out[Len(out)].index = out[i].index
    /\ out[Len(out)].type = "content_block_stop"
    /\ h.AllToolInputs = <<"x", "{", "}">>


\* the event strings the transcoder produces for the frames that were read
\* before the body ended
ReadStrings == StringsFrom(NewClaudeStreamHandler, SubSeq(script, 1, decoder.n))

\* the pipeline has come to its end: both queues closed and drained, the
\* three tasks over, and the caller has every event string, the last one
\* being Finish's message_delta (end_turn) with message_stop
StreamIsComplete ==
    /\ chanClosed /\ eventChan = <<>>
    /\ sseClosed /\ sseChan = <<>>
    /\ decoder.at \in {"done", "failed"}
    /\ transcoder.at = "done"
    /\ delivery.at = "done"
    /\ received = ReadStrings
    /\ received # <<>>
    /\ LET last == received[Len(received)]
       IN /\ Len(last) = 2
          /\ last[1].type = "message_delta" /\ last[1].kind = "end_turn"
          /\ last[2].type = "message_stop"

\* C37: when the body ends, at EOF or with a read error, and the delivery
\* stage keeps consuming, eventually both queues are closed, Finish has run
\* and the three tasks have ended; after a read error too the caller's last
\* events are message_delta with end_turn and message_stop
StreamRunsToCompletion == <>[]StreamIsComplete

\* the body broke off with a read error after a frame, the frames behind it
\* were never read, and the response was completed all the same
StreamWitness ==
    /\ decoder.at = "failed"
    /\ decoder.n >= 1
    /\ decoder.n < Len(script)
    /\ StreamIsComplete


\* the credential splits into three non-empty parts
WellFormedCredential(token) ==
    /\ Len(token) >= 3
    /\ token[1] # "" /\ token[2] # "" /\ token[3] # ""

\* the request has made a successful exchange of its own
HasExchanged(r) == requests[r].accessToken = IssuedTo(Request(r))

\* what holds of the requests and of the cache in every state
OnlyExchangedCredentialsAreCached ==
    /\ \A r \in DOMAIN requests :
          /\ ~WellFormedCredential(requests[r].token) =>
                requests[r].at \in {"start", "rlock", "lookup", "parse", "rejected"}
          /\ requests[r].at \in {"lock", "insert"} => HasExchanged(r)
          /\ requests[r].at = "rejected" =>
                /\ requests[r].cached = 0
                /\ ~HasExchanged(r)
          /\ requests[r].at = "passed" =>
                /\ requests[r].cached \in 1..Len(entries)
                /\ requests[r].accessToken # <<>>
    /\ \A hash \in DOMAIN tokenMap :
          \E r \in DOMAIN requests :
              /\ hash = sha256Hash(requests[r].token)
              /\ WellFormedCredential(requests[r].token)

\* what holds of every step of a request
CacheChangesOnlyOnInsert ==
    /\ (DOMAIN tokenMap' # DOMAIN tokenMap /\ DOMAIN tokenMap \subseteq DOMAIN tokenMap')
       \/ Len(entries') > Len(entries) =>
          \E r \in DOMAIN requests :
              /\ requests[r].at = "insert" /\ requests'[r].at = "passed"
              /\ HasExchanged(r)
              /\ sha256Hash(requests[r].token) \in DOMAIN tokenMap'
    /\ \A r \in DOMAIN requests :
          /\ (requests[r].at # "rejected" /\ requests'[r].at = "rejected") =>
                UNCHANGED <<tokenMap, entries>>
          /\ (requests[r].at = "lookup" /\ requests'[r].at # "lookup"
                 /\ sha256Hash(requests[r].token) \in DOMAIN tokenMap) =>
                requests'[r].at = "use"
          /\ (requests[r].at = "use" /\ requests'[r].at # "use") =>
                /\ requests'[r].at = "passed"
                /\ UNCHANGED <<tokenMap, entries>>

\* C38: the cache gains an entry only when a request stores the result of
\* its successful exchange; a request without credential, with a credential
\* that does not split into three non-empty parts, or whose exchange fails is
\* rejected, never passed on, and changes nothing in the cache; a request
\* that finds its credential cached goes on without an exchange
CacheGainsOnlyExchanged ==
    []OnlyExchangedCredentialsAreCached /\ [][CacheChangesOnlyOnInsert]_vars

\* of two requests with the same well-formed credential one was rejected
\* after its exchange failed, the other stored its token and was passed on
CacheGainsWitness ==
    \E r \in DOMAIN requests : \E q \in DOMAIN requests :
        /\ r # q
        /\ requests[r].token = requests[q].token
        /\ WellFormedCredential(requests[r].token)
        /\ requests[r].at = "rejected"
        /\ requests[q].at = "passed" /\ HasExchanged(q)
        /\ DOMAIN tokenMap = {sha256Hash(requests[q].token)}
====
